---- MODULE Spec2Model ----
(***************************************************************************)
(* IO Crosscheck: the matching cascade (strategies.py) over the           *)
(* normalization library (normalizers.py) and the classification rules    *)
(* (classifiers.py).                                                      *)
(*                                                                         *)
(* A Python str is a sequence of one-character strings, so that strip(),  *)
(* lower(), endswith(), find() and the regular expressions are computed   *)
(* character by character.  An object reference (MatchResult.io_device,   *)
(* MatchResult.plc_tag) is the position of the object in the input list,  *)
(* 0 standing for None.                                                    *)
(***************************************************************************)
EXTENDS Integers, Sequences, FiniteSets, TLC

(***************************************************************************)
(* Bounds of the model.                                                    *)
(***************************************************************************)
MaxDevices == 2
MaxTags == 2
MaxRuns == 2
MaxPasses == 2
MaxAliases == 3

(***************************************************************************)
(* Python str primitives.                                                  *)
(***************************************************************************)
UpperLetters ==
  <<"A","B","C","D","E","F","G","H","I","J","K","L","M",
    "N","O","P","Q","R","S","T","U","V","W","X","Y","Z">>

LowerLetters ==
  <<"a","b","c","d","e","f","g","h","i","j","k","l","m",
    "n","o","p","q","r","s","t","u","v","w","x","y","z">>

Digits == {"0","1","2","3","4","5","6","7","8","9"}

MinOf(S) == CHOOSE x \in S : \A y \in S : x <= y

MaxOf(S) == CHOOSE x \in S : \A y \in S : y <= x

\* s[k], or "" when k is outside the string
At(s, k) == IF k \in 1..Len(s) THEN s[k] ELSE ""

\* the lower-case letter of each upper-case letter
LowerOf ==
  [c \in {UpperLetters[k] : k \in 1..26} |->
     LowerLetters[CHOOSE k \in 1..26 : UpperLetters[k] = c]]

lower_char(c) == IF c \in DOMAIN LowerOf THEN LowerOf[c] ELSE c

\* str.lower()
lower(s) == [k \in 1..Len(s) |-> lower_char(s[k])]

\* the upper-case letter of each lower-case letter
UpperOf ==
  [c \in {LowerLetters[k] : k \in 1..26} |->
     UpperLetters[CHOOSE k \in 1..26 : LowerLetters[k] = c]]

\* str.upper()
upper(s) == [k \in 1..Len(s) |-> IF s[k] \in DOMAIN UpperOf THEN UpperOf[s[k]] ELSE s[k]]

\* str.strip()
strip(s) ==
  LET idx == {k \in 1..Len(s) : s[k] # " "}
  IN IF idx = {} THEN <<>> ELSE SubSeq(s, MinOf(idx), MaxOf(idx))

\* str.endswith(suffix)
endswith(s, suffix) ==
  /\ Len(s) >= Len(suffix)
  /\ \A k \in 1..Len(suffix) : s[Len(s) - Len(suffix) + k] = suffix[k]

\* str.startswith(prefix)
startswith(s, prefix) ==
  /\ Len(s) >= Len(prefix)
  /\ \A k \in 1..Len(prefix) : s[k] = prefix[k]

\* a literal of a re.IGNORECASE pattern, matched at position k of s
match_lit(s, k, lit) ==
  /\ k + Len(lit) - 1 <= Len(s)
  /\ \A n \in 1..Len(lit) : lower_char(s[k + n - 1]) = lower_char(lit[n])

\* \d*  matched greedily at position k of s: the position after the digits
RECURSIVE digits_end(_, _)
digits_end(s, k) ==
  IF k <= Len(s) /\ s[k] \in Digits THEN digits_end(s, k + 1) ELSE k

\* the value None
None == <<"<None>">>

(***************************************************************************)
(* normalizers.py                                                          *)
(***************************************************************************)
KNOWN_SUFFIXES ==
  << <<"_","F","a","i","l","e","d","T","o","C","l","o","s","e">>,
     <<"_","F","a","i","l","e","d","T","o","O","p","e","n">>,
     <<"_","O","n","T","i","m","e","r">>,
     <<"_","O","f","f","T","i","m","e","r">>,
     <<"_","M","o","n","i","t","o","r">>,
     <<"_","F","a","i","l","e","d">>,
     <<"_","P","u","l","s","e">>,
     <<"_","I","n","p","u","t">>,
     <<"_","O","u","t">>,
     <<"_","O","l","d">>,
     <<"_","P","o","s">>,
     <<"_","E","V">>,
     <<"_","M","C">>,
     <<"_","A","U","X">>,
     <<"_","Z","S","O">>,
     <<"_","Z","S","C">>,
     <<"_","I","n">> >>

\* the removal done twice, which the code does not do
strip_suffixes_twice(tag, suffix_list) ==
  LET once(t) ==
        LET hits == {k \in 1..Len(suffix_list) :
                       /\ Len(t) >= Len(suffix_list[k])
                       /\ endswith(lower(t), lower(suffix_list[k]))}
        IN IF hits = {} THEN t
           ELSE SubSeq(t, 1, Len(t) - Len(suffix_list[MinOf(hits)]))
  IN once(once(tag))

\* strip_suffixes(tag, suffixes): the first suffix of the list that the
\* tag ends with (case-insensitively) is removed, and only that one
strip_suffixes(tag, suffix_list) ==
  IF tag = <<>> THEN <<>>
  ELSE LET tag_lower == lower(tag)
           hits == {k \in 1..Len(suffix_list) :
                      /\ Len(tag) >= Len(suffix_list[k])
                      /\ endswith(tag_lower, lower(suffix_list[k]))}
       IN IF hits = {} THEN tag
          ELSE SubSeq(tag, 1, Len(tag) - Len(suffix_list[MinOf(hits)]))

normalize_tag(tag) ==
  LET t == strip(tag)
  IN IF t = <<>> THEN <<>> ELSE lower(strip_suffixes(t, KNOWN_SUFFIXES))

normalize_address(address) ==
  LET a == strip(address)
  IN IF a = <<>> THEN <<>> ELSE lower(a)

\* ^Rack\d+  : the position after the match, 0 when there is no match
rack_digits_end(s) ==
  IF match_lit(s, 1, <<"R","a","c","k">>) /\ digits_end(s, 5) > 5
  THEN digits_end(s, 5) ELSE 0

\* [IO] under re.IGNORECASE
is_IO(c) == lower_char(c) \in {"i", "o"}

\* _CLX_PATTERN  ^Rack\d+:(?:[IO]|\d+:[IO])
clx_pattern(s) ==
  LET b == rack_digits_end(s)
      c == digits_end(s, b + 1)
  IN /\ b > 0
     /\ At(s, b) = ":"
     /\ \/ is_IO(At(s, b + 1))
        \/ (c > b + 1 /\ At(s, c) = ":" /\ is_IO(At(s, c + 1)))

\* _PLC5_PATTERN  ^Rack\d+_Group\d+_Slot\d+_IO\.
plc5_pattern(s) ==
  LET b == rack_digits_end(s)
      g == digits_end(s, b + 6)
      t == digits_end(s, g + 5)
  IN /\ b > 0
     /\ match_lit(s, b, <<"_","G","r","o","u","p">>)
     /\ g > b + 6
     /\ match_lit(s, g, <<"_","S","l","o","t">>)
     /\ t > g + 5
     /\ match_lit(s, t, <<"_","I","O",".">>)

detect_address_format(address) ==
  LET a == strip(address)
  IN IF a = <<>> THEN "Unknown"
     ELSE IF clx_pattern(a) THEN "CLX"
     ELSE IF plc5_pattern(a) THEN "PLC5"
     ELSE "Unknown"

\* _CLX_RACK_BASE_PATTERN ^(Rack\d+:[IO]), then
\* _CLX_SLOT_RACK_BASE_PATTERN ^(Rack\d+):\d+:[IO]
extract_rack_base(address) ==
  IF address = <<>> THEN None
  ELSE LET a == strip(address)
           b == rack_digits_end(a)
           c == digits_end(a, b + 1)
       IN IF b > 0 /\ At(a, b) = ":" /\ is_IO(At(a, b + 1))
          THEN SubSeq(a, 1, b + 1)
          ELSE IF b > 0 /\ At(a, b) = ":" /\ c > b + 1
                  /\ At(a, c) = ":" /\ is_IO(At(a, c + 1))
          THEN SubSeq(a, 1, b - 1)
          ELSE None

\* ^(?:E300|VFD|IPDev|IPDEV)_ : the position after the prefix, 0 if none
enet_prefix_end(s) ==
  IF match_lit(s, 1, <<"E","3","0","0","_">>) THEN 6
  ELSE IF match_lit(s, 1, <<"V","F","D","_">>) THEN 5
  ELSE IF match_lit(s, 1, <<"I","P","D","e","v","_">>) THEN 7
  ELSE 0

\* _ENET_PATTERN ^(?:E300|VFD|IPDev|IPDEV)_(.+?)(?::[IOCS].*)?$ : group 1
\* is lazy, so it ends before the first ":[IOCS]" that leaves it non-empty
extract_enet_device(tag_name) ==
  IF tag_name = <<>> THEN None
  ELSE LET s == strip(tag_name)
           p == enet_prefix_end(s)
           cuts == {k \in (p + 1)..Len(s) :
                      /\ s[k] = ":"
                      /\ lower_char(At(s, k + 1)) \in {"i", "o", "c", "s"}}
       IN IF p = 0 \/ p > Len(s) THEN None
          ELSE IF cuts = {} THEN SubSeq(s, p, Len(s))
          ELSE SubSeq(s, p, MinOf(cuts) - 1)

(***************************************************************************)
(* parsers.py, classifiers.py                                              *)
(***************************************************************************)
\* _BASE_NAME_SUFFIX_RE  :[IOCS]\d*$  removed from the stripped name
extract_base_name(name) ==
  LET s == strip(name)
      cuts == {k \in 1..Len(s) :
                 /\ s[k] = ":"
                 /\ lower_char(At(s, k + 1)) \in {"i", "o", "c", "s"}
                 /\ digits_end(s, k + 2) = Len(s) + 1}
  IN IF cuts = {} THEN s ELSE SubSeq(s, 1, MinOf(cuts) - 1)

\* a "spare" test by containment, which the code does not use
is_spare_contains(io_tag) ==
  \E k \in 1..Len(io_tag) : match_lit(io_tag, k, <<"s","p","a","r","e">>)

is_spare(io_tag) == lower(strip(io_tag)) = <<"s","p","a","r","e">>

\* _ENET_PREFIX_PATTERN.match(tag.name.strip())
is_enet_device_tag(tag) == enet_prefix_end(strip(tag.name)) > 0

(***************************************************************************)
(* models.py                                                               *)
(***************************************************************************)
PLCTag(record_type, name, description, specifier, source_line) ==
  [record_type |-> record_type, name |-> name,
   base_name |-> extract_base_name(name), description |-> description,
   specifier |-> specifier, source_line |-> source_line]

IODevice(plc_address, io_tag, device_tag) ==
  [plc_address |-> plc_address, io_tag |-> io_tag, device_tag |-> device_tag,
   address_format |-> detect_address_format(plc_address)]

\* an entry of MatchResult.audit_trail: the text of the f-string and the
\* values formatted into it
Note(text, args) == [text |-> text, args |-> args]

MatchResult(io_device, plc_tag, strategy_id, confidence, classification, conflict_flag, audit_trail) ==
  [io_device |-> io_device, plc_tag |-> plc_tag, strategy_id |-> strategy_id,
   confidence |-> confidence, classification |-> classification,
   conflict_flag |-> conflict_flag, audit_trail |-> audit_trail,
   sources |-> <<>>]

\* a strategy that declines returns None
NoResult == MatchResult(0, 0, 0, "Exact", "<None>", FALSE, <<>>)

(***************************************************************************)
(* The inputs of a run: the texts of the repository's test vectors.        *)
(***************************************************************************)
ADDR_CLX == <<"R","a","c","k","0",":","I",".","D","a","t","a","[","5","]",".","7">>

SPEC_CLX == <<"R","a","c","k","0",":","I",".","D","A","T","A","[","5","]",".","7">>

ADDR_PLC5 == <<"R","a","c","k","0","_","G","r","o","u","p","0","_","S","l","o","t","0","_","I","O",".","R","E","A","D","[","4","]">>

DevicePool ==
  { IODevice(ADDR_CLX, <<"H","L","S","T","L","5","A","_","P","u","l","s","e">>, <<"H","L","S","T","L","5","A">>),
    IODevice(ADDR_CLX, <<"S","p","a","r","e","P","o","i","n","t">>, <<"F","T","6","5","6","B">>),
    IODevice(ADDR_CLX, <<>>, <<"L","T","6","1","1">>),
    IODevice(ADDR_PLC5, <<" ","s","p","a","r","e"," ">>, <<"P","6","2","1">>),
    IODevice(ADDR_PLC5, <<"P","6","2","1">>, <<>>),
    IODevice(<<>>, <<>>, <<>>) }

\* without its source_line, which parse_plc_csv or the caller sets
TagPool ==
  { PLCTag("COMMENT", <<"R","a","c","k","0",":","I">>, <<"H","L","S","T","L","5","A">>, SPEC_CLX, 0),
    PLCTag("TAG", <<"R","a","c","k","0",":","I">>, <<>>, <<>>, 0),
    PLCTag("TAG", <<"R","a","c","k","0","_","G","r","o","u","p","0","_","S","l","o","t","0","_","I","O">>, <<>>, <<>>, 0),
    PLCTag("TAG", <<"E","3","0","0","_","P","6","2","1",":","I">>, <<>>, <<>>, 0),
    PLCTag("TAG", <<"L","T","6","1","1","0","_","M","o","n","i","t","o","r">>, <<>>, <<>>, 0),
    PLCTag("COMMENT", <<>>, <<" ","l","t","6","1","1"," ">>, <<>>, 0),
    PLCTag("RCOMMENT", <<>>, <<"F","T","6","5","6","B">>, <<>>, 0) }

\* parse_plc_csv numbers the records by their line of the file, after the
\* header line; a PLCTag built without source_line has the default 0
LineNumbering == {"parsed", "default"}

SeqsUpTo(S, n) == UNION {[1..k -> S] : k \in 0..n}

(***************************************************************************)
(* classifiers.py: inter-controller MSG and consumed-tag detection.        *)
(***************************************************************************)
\* \w
is_word(c) ==
  \/ c \in Digits
  \/ c = "_"
  \/ c \in DOMAIN LowerOf
  \/ \E k \in 1..26 : LowerLetters[k] = c

\* [\w]+ matched greedily at position k of s: the position after the run
RECURSIVE word_end(_, _)
word_end(s, k) ==
  IF k <= Len(s) /\ is_word(s[k]) THEN word_end(s, k + 1) ELSE k

\* ^[letters]\d+<tail>  under re.IGNORECASE
msg_pattern(s, letters, tail) ==
  /\ lower_char(At(s, 1)) \in letters
  /\ digits_end(s, 2) > 2
  /\ match_lit(s, digits_end(s, 2), tail)

\* _MSG_READ_PATTERN  ^[NBF]\d+_R\[
MSG_READ_PATTERN(s) == msg_pattern(s, {"n", "b", "f"}, <<"_","R","[">>)

\* _MSG_WRITE_PATTERN  ^N\d+_W\[
MSG_WRITE_PATTERN(s) == msg_pattern(s, {"n"}, <<"_","W","[">>)

\* _MSG_RW_PATTERN  ^F\d+_RW\[
MSG_RW_PATTERN(s) == msg_pattern(s, {"f"}, <<"_","R","W","[">>)

\* _CONSUMED_PATTERN  ^(?!Rack\d)[\w]+(?:\[\d+\])?\.[\w]
CONSUMED_PATTERN(s) ==
  LET e == word_end(s, 1)
      g == digits_end(s, e + 1)
  IN /\ ~(match_lit(s, 1, <<"R","a","c","k">>) /\ At(s, 5) \in Digits)
     /\ e > 1
     /\ \/ At(s, e) = "." /\ is_word(At(s, e + 1))
        \/ /\ At(s, e) = "["
           /\ g > e + 1
           /\ At(s, g) = "]"
           /\ At(s, g + 1) = "."
           /\ is_word(At(s, g + 2))

\* the pair (is_msg, direction)
detect_msg_direction(alias_for) ==
  LET target == strip(alias_for)
  IN IF alias_for = <<>> THEN <<FALSE, "">>
     ELSE IF MSG_WRITE_PATTERN(target) THEN <<TRUE, "WRITE">>
     ELSE IF MSG_RW_PATTERN(target) THEN <<TRUE, "READ/WRITE">>
     ELSE IF MSG_READ_PATTERN(target) THEN <<TRUE, "READ">>
     ELSE <<FALSE, "">>

is_consumed_reference(alias_for) ==
  LET target == strip(alias_for)
  IN IF alias_for = <<>> THEN FALSE
     ELSE IF match_lit(target, 1, <<"R","A","C","K">>) THEN FALSE
     ELSE IF \/ MSG_READ_PATTERN(target)
             \/ MSG_WRITE_PATTERN(target)
             \/ MSG_RW_PATTERN(target) THEN FALSE
     ELSE IF enet_prefix_end(target) > 0 THEN FALSE
     ELSE CONSUMED_PATTERN(target)

(***************************************************************************)
(* l5x_to_crosscheck.py: extract_l5x_enrichment.                           *)
(***************************************************************************)
\* the patterns of _IO_CATALOG_PATTERNS that match a prefix
IO_CATALOG_PREFIXES ==
  { <<"1","7","5","6","-","I","B">>, <<"1","7","5","6","-","O","B">>, <<"1","7","5","6","-","I","F">>, <<"1","7","5","6","-","O","F">>,
    <<"1","9","3","-","E","C","M">>, <<"P","o","w","e","r","F","l","e","x">>, <<"P","r","o","m","a","s","s">> }

\* the patterns of _IO_CATALOG_PATTERNS that end in $
IO_CATALOG_NAMES == { <<"R","I","O","-","M","O","D","U","L","E">>, <<"E","T","H","E","R","N","E","T","-","M","O","D","U","L","E">> }

is_io_catalog(catalog) ==
  /\ catalog # <<>>
  /\ \/ \E pat \in IO_CATALOG_PREFIXES : match_lit(catalog, 1, pat)
     \/ \E pat \in IO_CATALOG_NAMES :
          Len(catalog) = Len(pat) /\ match_lit(catalog, 1, pat)

\* an entry of data["controller_tags"]["alias_tags"]
Alias(name, alias_for, description) ==
  [name |-> name, alias_for |-> alias_for, description |-> description]

\* an entry of data["modules"], with the addresses of its ports
Module(name, catalog_number, ports) ==
  [name |-> name, catalog_number |-> catalog_number, ports |-> ports]

\* the L5X data dict
L5XData(alias_tags, modules, rung_references) ==
  [alias_tags |-> alias_tags, modules |-> modules,
   rung_references |-> rung_references]

\* the buckets without the test for inter-controller MSG, which the code
\* does not skip
AliasBucket_NoMsgTest(alias) ==
  IF alias.name = <<>> \/ alias.alias_for = <<>> THEN "skipped"
  ELSE IF is_consumed_reference(alias.alias_for) THEN "consumed"
  ELSE "physical"

\* the bucket extract_l5x_enrichment puts an alias in
AliasBucket(alias) ==
  IF alias.name = <<>> \/ alias.alias_for = <<>> THEN "skipped"
  ELSE IF detect_msg_direction(alias.alias_for)[1] THEN "msg"
  ELSE IF is_consumed_reference(alias.alias_for) THEN "consumed"
  ELSE "physical"

extract_l5x_enrichment(data) ==
  LET IsMsg(a) == AliasBucket(a) = "msg"
      IsConsumed(a) == AliasBucket(a) = "consumed"
      IsPhysical(a) == AliasBucket(a) = "physical"
      IsIO(m) == is_io_catalog(m.catalog_number)
      physical == SelectSeq(data.alias_tags, IsPhysical)
      msgs == SelectSeq(data.alias_tags, IsMsg)
      io_modules == SelectSeq(data.modules, IsIO)
      addr_keys == {normalize_address(physical[k].alias_for) :
                      k \in 1..Len(physical)}
      name_keys == {normalize_tag(physical[k].name) : k \in 1..Len(physical)}
  IN [alias_by_address |->
        [key \in addr_keys |->
           LET At_key(a) == normalize_address(a.alias_for) = key
           IN SelectSeq(physical, At_key)],
      alias_by_name |->
        [key \in name_keys |->
           physical[MaxOf({k \in 1..Len(physical) :
                             normalize_tag(physical[k].name) = key})]],
      module_names |->
        {lower(io_modules[k].name) : k \in 1..Len(io_modules)} \ {<<>>},
      module_addresses |->
        UNION {{lower(io_modules[k].ports[n]) :
                  n \in 1..Len(io_modules[k].ports)} :
               k \in 1..Len(io_modules)} \ {<<>>},
      rung_references |->
        {data.rung_references[k] : k \in 1..Len(data.rung_references)},
      msg_tags |->
        [k \in 1..Len(msgs) |->
           [name |-> msgs[k].name, alias_for |-> msgs[k].alias_for,
            description |-> msgs[k].description,
            direction |-> detect_msg_direction(msgs[k].alias_for)[2]]],
      consumed_tags |-> SelectSeq(data.alias_tags, IsConsumed)]

\* the enrichment of an L5X file with no aliases, modules or rung operands
NoEnrichment == extract_l5x_enrichment(L5XData(<<>>, <<>>, <<>>))


VARIABLES
  io_devices,        \* the io_devices argument of run
  plc_tags,          \* the plc_tags argument of run
  pc,                \* "idle": no call of run is active; "run": inside run
  results,           \* run's local list of results
  matched_plc_tags,  \* run's local set of source lines
  i,                 \* phase 1: position of io_dev in io_devices
  s,                 \* phase 1: strategies already tried for io_dev
  j,                 \* phase 2: position of tag in plc_tags
  calls,             \* per device, the strategy ids whose match was called
  returned,          \* the lists returned by the calls completed so far
  l5x_enrichment,    \* the l5x_enrichment argument of enrich_results
  snap,              \* results and PLCTags as they were before each pass
  passes,            \* the calls of enrich_results completed so far
  arg,               \* the argument of the function called on its own
  ret                \* the value that call returned

\* the variables of the enrichment layer
evars == <<l5x_enrichment, snap, passes>>

\* the variables of a function called on its own
fvars == <<arg, ret>>

vars == <<io_devices, plc_tags, pc, results, matched_plc_tags, i, s, j,
          calls, returned, l5x_enrichment, snap, passes, arg, ret>>

(***************************************************************************)
(* strategies.py: the strategies.  match(io_device, plc_tags) is given the *)
(* position d of the device in io_devices; it returns the MatchResult of   *)
(* the first tag of plc_tags that its loop accepts, or NoResult.           *)
(***************************************************************************)
\* Strategy 1, DirectCLXAddressMatch.match
DirectCLXAddressMatch(d) ==
  LET io_device == io_devices[d]
      norm_addr == normalize_address(io_device.plc_address)
      hits == {k \in 1..Len(plc_tags) :
                 /\ plc_tags[k].record_type = "COMMENT"
                 /\ plc_tags[k].specifier # <<>>
                 /\ normalize_address(plc_tags[k].specifier) = norm_addr}
      k == MinOf(hits)
      tag == plc_tags[k]
      io_base == IF io_device.io_tag # <<>>
                 THEN normalize_tag(io_device.io_tag) ELSE <<>>
      io_dev_base == IF io_device.device_tag # <<>>
                     THEN normalize_tag(io_device.device_tag) ELSE <<>>
      plc_desc == IF tag.description # <<>>
                  THEN lower(strip(tag.description)) ELSE <<>>
      name_matches ==
        \/ (plc_desc # <<>> /\ (plc_desc = io_base \/ plc_desc = io_dev_base))
        \/ plc_desc = <<>>
        \/ io_base = <<>>
  IN IF io_device.address_format # "CLX" THEN NoResult
     ELSE IF io_device.plc_address = <<>> THEN NoResult
     ELSE IF hits = {} THEN NoResult
     ELSE IF name_matches
     THEN MatchResult(d, k, 1, "Exact", "Both", FALSE,
            << Note("Strategy 1: Direct CLX Address Match", <<>>),
               Note("IO address '{}' matches PLC COMMENT specifier '{}' (case-insensitive)",
                    <<io_device.plc_address, tag.specifier>>),
               Note("PLC description: '{}', IO tag: '{}', Device tag: '{}'",
                    <<tag.description, io_device.io_tag, io_device.device_tag>>) >>)
     ELSE MatchResult(d, k, 1, "Exact", "Conflict", TRUE,
            << Note("Strategy 1: Direct CLX Address Match - CONFLICT", <<>>),
               Note("IO address '{}' matches PLC COMMENT specifier '{}'",
                    <<io_device.plc_address, tag.specifier>>),
               Note("BUT device names differ: IO='{}' vs PLC='{}'",
                    <<io_device.device_tag, tag.description>>) >>)

\* every address format taken for PLC5, which the code does not do
is_plc5_format_any(io_device) == TRUE

\* not (io_device.address_format != AddressFormat.PLC5)
is_plc5_format(io_device) == io_device.address_format = "PLC5"

\* Strategy 2, PLC5RackAddressMatch.match
PLC5RackAddressMatch(d) ==
  LET io_device == io_devices[d]
      addr == strip(io_device.plc_address)
      dots == {k \in 1..Len(addr) : addr[k] = "."}
      addr_base == IF dots # {} /\ MinOf(dots) > 1
                   THEN lower(SubSeq(addr, 1, MinOf(dots) - 1))
                   ELSE lower(addr)
      hits == {k \in 1..Len(plc_tags) :
                 /\ plc_tags[k].record_type = "TAG"
                 /\ lower(strip(plc_tags[k].name)) = addr_base}
      k == MinOf(hits)
  IN IF ~is_plc5_format(io_device) THEN NoResult
     ELSE IF io_device.plc_address = <<>> THEN NoResult
     ELSE IF hits = {} THEN NoResult
     ELSE MatchResult(d, k, 2, "Exact", "Both", FALSE,
            << Note("Strategy 2: PLC5 Rack Address Match", <<>>),
               Note("IO address base '{}' matches PLC TAG name '{}' (case-insensitive)",
                    <<addr_base, plc_tags[k].name>>) >>)

\* Strategy 4, ENetModuleTagExtraction.match
ENetModuleTagExtraction(d) ==
  LET io_device == io_devices[d]
      io_dev_tag == IF io_device.device_tag # <<>>
                    THEN strip(io_device.device_tag) ELSE <<>>
      io_io_tag == IF io_device.io_tag # <<>>
                   THEN strip(io_device.io_tag) ELSE <<>>
      io_dev_lower == lower(io_dev_tag)
      io_io_lower == lower(io_io_tag)
      hits == {k \in 1..Len(plc_tags) :
                 /\ plc_tags[k].record_type = "TAG"
                 /\ extract_enet_device(plc_tags[k].name) # None
                 /\ LET device_id_lower ==
                          lower(extract_enet_device(plc_tags[k].name))
                    IN \/ device_id_lower = io_dev_lower
                       \/ device_id_lower = io_io_lower}
      k == MinOf(hits)
  IN IF io_dev_tag = <<>> /\ io_io_tag = <<>> THEN NoResult
     ELSE IF hits = {} THEN NoResult
     ELSE MatchResult(d, k, 4, "Exact", "Both", FALSE,
            << Note("Strategy 4: ENet Module Tag Extraction", <<>>),
               Note("Extracted device '{}' from PLC TAG '{}'",
                    <<extract_enet_device(plc_tags[k].name), plc_tags[k].name>>),
               Note("Matches IO device tag '{}' (case-insensitive)",
                    <<io_device.device_tag>>) >>)

\* a test by prefix in either direction, which the code does not use
in_candidates_prefix(plc_name, candidates) ==
  \E c \in candidates : startswith(c, plc_name) \/ startswith(plc_name, c)

\* plc_name in candidates
in_candidates(plc_name, candidates) == plc_name \in candidates

\* Strategy 5, TagNameNormalizationMatch.match
TagNameNormalizationMatch(d) ==
  LET io_device == io_devices[d]
      io_tag_norm == IF io_device.io_tag # <<>>
                     THEN normalize_tag(io_device.io_tag) ELSE <<>>
      dev_tag_norm == IF io_device.device_tag # <<>>
                      THEN normalize_tag(io_device.device_tag) ELSE <<>>
      candidates == {io_tag_norm, dev_tag_norm} \ {<<>>}
      plc_names(tag) ==
        (IF tag.base_name # <<>>
         THEN <<normalize_tag(tag.base_name)>> ELSE <<>>)
        \o (IF tag.description # <<>>
            THEN <<lower(strip(tag.description))>> ELSE <<>>)
      accepted(tag) ==
        {n \in 1..Len(plc_names(tag)) :
           /\ plc_names(tag)[n] # <<>>
           /\ in_candidates(plc_names(tag)[n], candidates)}
      hits == {k \in 1..Len(plc_tags) : accepted(plc_tags[k]) # {}}
      k == MinOf(hits)
      tag == plc_tags[k]
      plc_name == plc_names(tag)[MinOf(accepted(tag))]
  IN IF io_tag_norm = <<>> /\ dev_tag_norm = <<>> THEN NoResult
     ELSE IF hits = {} THEN NoResult
     ELSE MatchResult(d, k, 5, "High", "Both", FALSE,
            << Note("Strategy 5: Tag Name Normalization Match", <<>>),
               Note("Normalized IO tag(s) {} matched PLC name '{}'",
                    <<candidates, plc_name>>),
               Note("IO tag: '{}', Device tag: '{}'",
                    <<io_device.io_tag, io_device.device_tag>>),
               Note("PLC source: {} '{}' (description='{}', base_name='{}')",
                    <<tag.record_type, tag.name, tag.description,
                      tag.base_name>>) >>)

(***************************************************************************)
(* strategies.py: MatchingEngine                                           *)
(***************************************************************************)
\* the strategies in the opposite order, which the code does not use
strategies_reversed == <<5, 4, 2, 1>>

\* MatchingEngine.__init__: self.strategies, by strategy_id
strategies == <<1, 2, 4, 5>>

\* BaseStrategy.name of each strategy
StrategyName(id) ==
  CASE id = 1 -> "Direct CLX Address Match"
    [] id = 2 -> "PLC5 Rack Address Match"
    [] id = 4 -> "ENet Module Tag Extraction"
    [] id = 5 -> "Tag Name Normalization Match"

\* strategy.match(io_dev, plc_tags)
Match(id, d) ==
  CASE id = 1 -> DirectCLXAddressMatch(d)
    [] id = 2 -> PLC5RackAddressMatch(d)
    [] id = 4 -> ENetModuleTagExtraction(d)
    [] id = 5 -> TagNameNormalizationMatch(d)

\* a spare result that names a strategy, which the code does not build
SpareResult_Strategy5(d) ==
  MatchResult(d, 0, 5, "Exact", "Spare", FALSE,
    << Note("IO tag '{}' identified as spare - excluded from matching",
            <<io_devices[d].io_tag>>) >>)

\* the result of a spare device
SpareResult(d) ==
  MatchResult(d, 0, 0, "Exact", "Spare", FALSE,
    << Note("IO tag '{}' identified as spare - excluded from matching",
            <<io_devices[d].io_tag>>) >>)

\* a result that does not say which strategies were evaluated, which the
\* code does not build
IOListOnlyResult_NoList(d) ==
  MatchResult(d, 0, 0, "Exact", "IO List Only", FALSE,
    << Note("No matching strategy found for IO device", <<>>) >>)

\* the result of a device that no strategy matched
IOListOnlyResult(d) ==
  MatchResult(d, 0, 0, "Exact", "IO List Only", FALSE,
    << Note("No matching strategy found for IO device", <<>>),
       Note("IO tag: '{}', Device tag: '{}', Address: '{}'",
            <<io_devices[d].io_tag, io_devices[d].device_tag,
              io_devices[d].plc_address>>),
       Note("Strategies evaluated: {}",
            <<[n \in 1..Len(strategies) |-> StrategyName(strategies[n])]>>) >>)

\* a result without audit entries, which the code does not build
PLCOnlyResult_NoAudit(k) ==
  MatchResult(0, k, 0, "Exact", "PLC Only", FALSE, <<>>)

\* the result of a leftover EtherNet/IP tag
PLCOnlyResult(k) ==
  MatchResult(0, k, 0, "Exact", "PLC Only", FALSE,
    << Note("PLC TAG '{}' has no matching IO List device", <<plc_tags[k].name>>),
       Note("Classified as PLC Only (ENet device)", <<>>) >>)

\* results kept from the call before, which the code does not do
KeptResults == results

\* results: list[MatchResult] = []
NewResults == <<>>

\* matched_plc_tags: set[int] = set()
NewMatchedSet == {}

SourceLine(scheme, k) == IF scheme = "parsed" THEN k + 1 ELSE 0

Init ==
  /\ io_devices \in SeqsUpTo(DevicePool, MaxDevices)
  /\ \E tags \in SeqsUpTo(TagPool, MaxTags) :
       \E scheme \in LineNumbering :
         plc_tags = [k \in 1..Len(tags) |->
                       [tags[k] EXCEPT !.source_line = SourceLine(scheme, k)]]
  /\ pc = "idle"
  /\ results = <<>>
  /\ matched_plc_tags = {}
  /\ i = 0
  /\ s = 0
  /\ j = 0
  /\ calls = <<>>
  /\ returned = <<>>
  /\ l5x_enrichment = NoEnrichment
  /\ snap = <<>>
  /\ passes = 0
  /\ arg = None
  /\ ret = None

\* engine.run(io_devices, plc_tags) is called
Call ==
  /\ pc = "idle"
  /\ Len(returned) < MaxRuns
  /\ pc' = "run"
  /\ results' = NewResults
  /\ matched_plc_tags' = NewMatchedSet
  /\ i' = 1
  /\ s' = 0
  /\ j' = 1
  /\ calls' = [d \in 1..Len(io_devices) |-> <<>>]
  /\ UNCHANGED <<fvars, io_devices, plc_tags, returned>>
  /\ UNCHANGED evars

InPhase1 == pc = "run" /\ i <= Len(io_devices)

InPhase2 == pc = "run" /\ i > Len(io_devices) /\ j <= Len(plc_tags)

\* is_spare(io_dev.io_tag), tested first for each device
AtSpare == InPhase1 /\ s = 0 /\ is_spare(io_devices[i].io_tag)

\* the loop over self.strategies is at its next strategy
AtStrategy ==
  InPhase1 /\ ~is_spare(io_devices[i].io_tag) /\ s < Len(strategies)

\* the loop over self.strategies ended without a break
AtNoMatch ==
  InPhase1 /\ ~is_spare(io_devices[i].io_tag) /\ s = Len(strategies)

\* return results
AtReturn == pc = "run" /\ i > Len(io_devices) /\ j > Len(plc_tags)

\* phase 1, a spare device: the result is appended and the loop continues
Spare ==
  /\ AtSpare
  /\ results' = Append(results, SpareResult(i))
  /\ i' = i + 1
  /\ UNCHANGED <<fvars, io_devices, plc_tags, pc, matched_plc_tags, s, j, calls,
                 returned>>
  /\ UNCHANGED evars

\* phase 1: the next strategy declines
StrategyDecline ==
  /\ AtStrategy
  /\ Match(strategies[s + 1], i) = NoResult
  /\ s' = s + 1
  /\ calls' = [calls EXCEPT ![i] = Append(@, strategies[s + 1])]
  /\ UNCHANGED <<fvars, io_devices, plc_tags, pc, results, matched_plc_tags, i, j,
                 returned>>
  /\ UNCHANGED evars

\* a hit after which the loop over the strategies goes on, which the code
\* does not do
StrategyHit_NoBreak ==
  /\ AtStrategy
  /\ Match(strategies[s + 1], i) # NoResult
  /\ results' = Append(results, Match(strategies[s + 1], i))
  /\ s' = s + 1
  /\ calls' = [calls EXCEPT ![i] = Append(@, strategies[s + 1])]
  /\ UNCHANGED <<fvars, io_devices, plc_tags, pc, matched_plc_tags, i, j, returned>>
  /\ UNCHANGED evars

\* phase 1: the next strategy returns a result, which is kept (break)
StrategyHit ==
  /\ AtStrategy
  /\ LET result == Match(strategies[s + 1], i)
     IN /\ result # NoResult
        /\ results' = Append(results, result)
        /\ matched_plc_tags' =
             IF result.plc_tag # 0 /\ plc_tags[result.plc_tag].source_line # 0
             THEN matched_plc_tags \cup {plc_tags[result.plc_tag].source_line}
             ELSE matched_plc_tags
  /\ i' = i + 1
  /\ s' = 0
  /\ calls' = [calls EXCEPT ![i] = Append(@, strategies[s + 1])]
  /\ UNCHANGED <<fvars, io_devices, plc_tags, pc, j, returned>>
  /\ UNCHANGED evars

\* phase 1: every strategy declined
NoStrategyMatched ==
  /\ AtNoMatch
  /\ results' = Append(results, IOListOnlyResult(i))
  /\ i' = i + 1
  /\ s' = 0
  /\ UNCHANGED <<fvars, io_devices, plc_tags, pc, matched_plc_tags, j, calls,
                 returned>>
  /\ UNCHANGED evars

\* phase 2: the tag's source line is in matched_plc_tags
SkipMatchedTag ==
  /\ InPhase2
  /\ plc_tags[j].source_line \in matched_plc_tags
  /\ j' = j + 1
  /\ UNCHANGED <<fvars, io_devices, plc_tags, pc, results, matched_plc_tags, i, s,
                 calls, returned>>
  /\ UNCHANGED evars

\* the PLC-only result put at the head of the list, which the code does
\* not do
EmitPLCOnly_Prepend ==
  /\ InPhase2
  /\ plc_tags[j].source_line \notin matched_plc_tags
  /\ is_enet_device_tag(plc_tags[j]) /\ plc_tags[j].record_type = "TAG"
  /\ results' = <<PLCOnlyResult(j)>> \o results
  /\ j' = j + 1
  /\ UNCHANGED <<fvars, io_devices, plc_tags, pc, matched_plc_tags, i, s, calls,
                 returned>>
  /\ UNCHANGED evars

\* phase 2: a leftover EtherNet/IP Tag record
EmitPLCOnly ==
  /\ InPhase2
  /\ plc_tags[j].source_line \notin matched_plc_tags
  /\ is_enet_device_tag(plc_tags[j]) /\ plc_tags[j].record_type = "TAG"
  /\ results' = Append(results, PLCOnlyResult(j))
  /\ j' = j + 1
  /\ UNCHANGED <<fvars, io_devices, plc_tags, pc, matched_plc_tags, i, s, calls,
                 returned>>
  /\ UNCHANGED evars

\* phase 2: any other leftover record
PassTag ==
  /\ InPhase2
  /\ plc_tags[j].source_line \notin matched_plc_tags
  /\ ~(is_enet_device_tag(plc_tags[j]) /\ plc_tags[j].record_type = "TAG")
  /\ j' = j + 1
  /\ UNCHANGED <<fvars, io_devices, plc_tags, pc, results, matched_plc_tags, i, s,
                 calls, returned>>
  /\ UNCHANGED evars

\* return results
Return ==
  /\ AtReturn
  /\ pc' = "idle"
  /\ returned' = Append(returned, results)
  /\ UNCHANGED <<fvars, io_devices, plc_tags, results, matched_plc_tags, i, s, j,
                 calls>>
  /\ UNCHANGED evars

Next ==
  \/ Call
  \/ Spare
  \/ StrategyDecline
  \/ StrategyHit
  \/ NoStrategyMatched
  \/ SkipMatchedTag
  \/ EmitPLCOnly
  \/ PassTag
  \/ Return

Spec == Init /\ [][Next]_vars

(***************************************************************************)
(* MatchingEngine.run as a function of its arguments: the list the engine  *)
(* returns, which app.py hands to enrich_results.                          *)
(***************************************************************************)
\* the element of a set of one element; {f(x) : x \in {e}} is f(e) with e
\* evaluated once
Only(S) == CHOOSE x \in S : TRUE

\* the result of the first strategy that matches the device d, from the
\* k-th strategy on
RECURSIVE FirstHit(_, _)
FirstHit(k, d) ==
  IF k > Len(strategies) THEN NoResult
  ELSE Only({IF result # NoResult THEN result ELSE FirstHit(k + 1, d) :
               result \in {Match(strategies[k], d)}})

\* the result of the device d: spare check, then the cascade, then
\* IO List Only
Cascade(d) ==
  IF is_spare(io_devices[d].io_tag) THEN SpareResult(d)
  ELSE Only({IF result # NoResult THEN result ELSE IOListOnlyResult(d) :
               result \in {FirstHit(1, d)}})

\* phase 1: the results of the first n devices
RECURSIVE Phase1(_)
Phase1(n) == IF n = 0 THEN <<>> ELSE Append(Phase1(n - 1), Cascade(n))

\* the source lines phase 1 adds to matched_plc_tags
MatchedLines(phase1) ==
  {plc_tags[phase1[d].plc_tag].source_line :
     d \in {e \in 1..Len(phase1) : phase1[e].plc_tag # 0}} \ {0}

\* phase 2: the PLC Only results appended to the results of phase 1
Phase2(phase1) ==
  LET Leftover(k) ==
        /\ plc_tags[k].source_line \notin MatchedLines(phase1)
        /\ is_enet_device_tag(plc_tags[k])
        /\ plc_tags[k].record_type = "TAG"
      left == SelectSeq([k \in 1..Len(plc_tags) |-> k], Leftover)
  IN phase1 \o [n \in 1..Len(left) |-> PLCOnlyResult(left[n])]

\* engine.run(io_devices, plc_tags)
RunResults == Only({Phase2(phase1) : phase1 \in {Phase1(Len(io_devices))}})

(***************************************************************************)
(* l5x_to_crosscheck.py: enrich_results.  In a call of enrich_results      *)
(* plc_tags holds the PLCTag objects the results refer to: the tags given  *)
(* to the engine and, after them, the PLCTags enrich_results builds.       *)
(***************************************************************************)
\* the members of the enum Classification
Classification == {"Both", "IO List Only", "PLC Only", "Conflict", "Spare"}

\* Classification.RACK_ONLY taken as a member, which the enum does not have
RACK_ONLY_declared == TRUE

\* Classification.RACK_ONLY can be evaluated
RACK_ONLY_defined == "Rack Only" \in Classification

\* s.split(".")[0]
split_first(str) ==
  LET dots == {k \in 1..Len(str) : str[k] = "."}
  IN IF dots = {} THEN str ELSE SubSeq(str, 1, MinOf(dots) - 1)

\* the audit entries of the rung CDATA pass and of the description fill
USED_IN_LOGIC ==
  "L5X rung CDATA references address '{}' directly (no alias, used in logic)"

MAY_BE_UNUSED ==
  "L5X: No alias found for '{}' and address not referenced in rung CDATA - IO point may be unused"

SUPPLIED_DESCRIPTION == "L5X supplied description: '{}'"

\* [a["name"] for a in aliases]
alias_names(aliases) == [k \in 1..Len(aliases) |-> aliases[k].name]

\* one note, or none
NoteIf(cond, text, args) == IF cond THEN <<Note(text, args)>> ELSE <<>>

\* the test of the description fill without the test of tag.description,
\* which the code does not do
fills_description_always(tag, l5x_alias) == l5x_alias.description # <<>>

\* if not tag.description and l5x_alias.get("description")
fills_description(tag, l5x_alias) ==
  tag.description = <<>> /\ l5x_alias.description # <<>>

\* the test of the rung CDATA pass without the test of rung_references,
\* which the code does not do
rung_pass_applies_always(r, alias_found_for_device) ==
  /\ ~alias_found_for_device
  /\ detect_address_format(io_devices[r.io_device].plc_address)
       \in {"CLX", "PLC5"}
  /\ r.classification # "Spare"

\* not alias_found_for_device and is_rack_addr and rung_references
\* and result.classification != Classification.SPARE
rung_pass_applies(r, alias_found_for_device) ==
  /\ ~alias_found_for_device
  /\ detect_address_format(io_devices[r.io_device].plc_address)
       \in {"CLX", "PLC5"}
  /\ l5x_enrichment.rung_references # {}
  /\ r.classification # "Spare"

\* found_in_cdata of the spare CDATA check
found_in_cdata(plc_address) ==
  LET addr_key == normalize_address(plc_address)
      by_address == l5x_enrichment.alias_by_address
  IN \/ lower(plc_address) \in l5x_enrichment.rung_references
     \/ /\ addr_key \in DOMAIN by_address
        /\ \E k \in 1..Len(by_address[addr_key]) :
             lower(by_address[addr_key][k].name)
               \in l5x_enrichment.rung_references

\* sources with "L5X" appended whether or not it is there, which the code
\* does not do
with_L5X_always(sources) == Append(sources, "L5X")

\* if "L5X" not in result.sources: result.sources.append("L5X")
with_L5X(sources) ==
  IF \E k \in 1..Len(sources) : sources[k] = "L5X" THEN sources
  ELSE Append(sources, "L5X")

\* every PLCTag taken for a rack-level base name, which the code does not do
is_rack_base_name_any(tag, dev) == TRUE

\* rack_base == addr_base: the name of the PLCTag is the address up to its
\* first "."
is_rack_base_name(tag, dev) ==
  lower(strip(tag.name)) = lower(strip(split_first(dev.plc_address)))

\* the trail cleared before the notes are appended, which the code does
\* not do
append_notes_cleared(trail, notes) == notes

\* for note in l5x_confirmations: result.audit_trail.append(note)
append_notes(trail, notes) == trail \o notes

\* the flag left as it is by the spare check, which the code does not do
conflict_flag_after_unset(flag, unused, spare_found) ==
  IF unused THEN TRUE ELSE flag

\* result.conflict_flag = True, next to each of the two assignments of
\* result.classification
conflict_flag_after(flag, unused, spare_found) ==
  IF spare_found \/ unused THEN TRUE ELSE flag

\* One iteration of the loop of enrich_results, for the result r:
\*   raised       Classification.RACK_ONLY was evaluated and is not defined
\*   result       r as the iteration leaves it (its plc_tag aside)
\*   description  the description of r's PLCTag as the iteration leaves it
\*   upgraded     the iteration gave r a new PLCTag, new_tag
Enriched(r, has_rack_only) ==
  LET E == l5x_enrichment
      has_tag == r.plc_tag # 0
      has_dev == r.io_device # 0
      tag == plc_tags[r.plc_tag]
      dev == io_devices[r.io_device]
      \* --- Check PLC tag side ---
      tag_name_norm == normalize_tag(tag.name)
      name_hit == has_tag /\ tag_name_norm \in DOMAIN E.alias_by_name
      l5x_alias == E.alias_by_name[tag_name_norm]
      fill == name_hit /\ fills_description(tag, l5x_alias)
      description == IF fill THEN l5x_alias.description ELSE tag.description
      spec_hit == /\ has_tag
                  /\ tag.specifier # <<>>
                  /\ normalize_address(tag.specifier)
                       \in DOMAIN E.alias_by_address
      c_tag ==
        NoteIf(name_hit, "L5X alias '{}' -> '{}' confirms tag",
               <<l5x_alias.name, l5x_alias.alias_for>>)
        \o NoteIf(fill, SUPPLIED_DESCRIPTION,
                  <<l5x_alias.description>>)
        \o NoteIf(spec_hit, "L5X alias(es) {} confirm address '{}'",
                  <<alias_names(E.alias_by_address[
                                  normalize_address(tag.specifier)]),
                    tag.specifier>>)
      \* --- Check IO device side ---
      has_addr == has_dev /\ dev.plc_address # <<>>
      module_hit == has_addr /\ lower(dev.plc_address) \in E.module_addresses
      addr_key == normalize_address(dev.plc_address)
      alias_found_for_device ==
        has_addr /\ addr_key \in DOMAIN E.alias_by_address
      aliases == E.alias_by_address[addr_key]
      upgraded ==
        /\ alias_found_for_device
        /\ has_tag
        /\ Len(aliases) = 1
        /\ is_rack_base_name(tag, dev)
      new_tag ==
        [record_type |-> "TAG", name |-> aliases[1].name, base_name |-> <<>>,
         description |-> IF aliases[1].description # <<>>
                         THEN aliases[1].description ELSE description,
         specifier |-> aliases[1].alias_for, source_line |-> 0]
      rung_pass == has_addr /\ rung_pass_applies(r, alias_found_for_device)
      used == lower(dev.plc_address) \in E.rung_references
      unused == rung_pass /\ ~used
      c_dev ==
        NoteIf(module_hit, "L5X module tree confirms hardware at '{}'",
               <<dev.plc_address>>)
        \o NoteIf(alias_found_for_device,
                  "L5X alias(es) {} reference device address '{}'",
                  <<alias_names(aliases), dev.plc_address>>)
        \o NoteIf(upgraded,
                  "L5X upgraded PLC tag from rack-level '{}' to alias '{}'",
                  <<tag.name, aliases[1].name>>)
        \o NoteIf(rung_pass /\ used,
                  USED_IN_LOGIC,
                  <<dev.plc_address>>)
        \o NoteIf(unused,
                  MAY_BE_UNUSED,
                  <<dev.plc_address>>)
        \o NoteIf(has_dev /\ dev.device_tag # <<>>
                    /\ lower(dev.device_tag) \in E.module_names,
                  "L5X module '{}' confirms IO hardware exists",
                  <<dev.device_tag>>)
      \* --- Spare CDATA check ---
      spare_found ==
        /\ (IF unused THEN "Rack Only" ELSE r.classification) = "Spare"
        /\ has_addr
        /\ E.rung_references # {}
        /\ found_in_cdata(dev.plc_address)
      c_spare ==
        NoteIf(spare_found,
               "L5X: IO list marks '{}' as spare but address is referenced in rung CDATA - point is used in logic",
               <<dev.plc_address>>)
      \* --- Apply confirmations ---
      l5x_confirmations == c_tag \o c_dev \o c_spare
  IN [raised |-> unused /\ ~has_rack_only,
      description |-> IF has_tag THEN description ELSE None,
      upgraded |-> upgraded,
      new_tag |-> IF upgraded THEN new_tag ELSE None,
      result |->
        [r EXCEPT
           !.classification = IF spare_found THEN "Conflict"
                              ELSE IF unused THEN "Rack Only" ELSE @,
           !.conflict_flag = conflict_flag_after(@, unused, spare_found),
           !.sources = IF l5x_confirmations # <<>> THEN with_L5X(@) ELSE @,
           !.audit_trail = append_notes(@, l5x_confirmations)]]

\* the inputs of enrichment: devices and tags of the repository's tests
ADDR_ENET == <<"E","3","0","0","_","P","6","2","1",":","I",".","C","h","0","D","a","t","a">>

EnrichDevicePool ==
  { IODevice(ADDR_PLC5, <<"P","6","2","1">>, <<>>),
    IODevice(ADDR_PLC5, <<" ","s","p","a","r","e"," ">>, <<"P","6","2","1">>),
    IODevice(ADDR_CLX, <<"S","p","a","r","e","P","o","i","n","t">>, <<"F","T","6","5","6","B">>),
    IODevice(ADDR_ENET, <<"P","6","2","1">>, <<>>),
    IODevice(<<>>, <<"S","p","a","r","e">>, <<>>) }

EnrichTagPool ==
  { PLCTag("COMMENT", <<"R","a","c","k","0",":","I">>, <<"H","L","S","T","L","5","A">>, SPEC_CLX, 0),
    PLCTag("TAG", <<"R","a","c","k","0","_","G","r","o","u","p","0","_","S","l","o","t","0","_","I","O">>, <<>>, <<>>, 0),
    PLCTag("TAG", <<"E","3","0","0","_","P","6","2","1",":","I">>, <<>>, <<>>, 0),
    PLCTag("TAG", <<"P","6","2","1">>, <<>>, <<>>, 0),
    PLCTag("TAG", <<"P","6","2","1">>, <<"F","e","e","d"," ","p","u","m","p">>, <<>>, 0),
    PLCTag("TAG", <<"R","a","c","k","0","_","G","r","o","u","p","0","_","S","l","o","t","0","_","I","O">>, <<"R","a","c","k"," ","0">>, <<>>, 0) }

\* alias tags of an L5X file
ALIAS_P621 == Alias(<<"P","6","2","1">>, ADDR_PLC5, <<"P","u","m","p"," ","6","2","1">>)

ALIAS_P621B == Alias(<<"P","6","2","1","_","B">>, ADDR_PLC5, <<>>)

ALIAS_P621_MONITOR == Alias(<<"P","6","2","1","_","M","o","n","i","t","o","r">>, ADDR_PLC5, <<>>)

ALIAS_P621_READ5 == Alias(<<"P","6","2","1">>, <<"R","a","c","k","0","_","G","r","o","u","p","0","_","S","l","o","t","0","_","I","O",".","R","E","A","D","[","5","]">>, <<"P","u","m","p"," ","6","2","1">>)

ALIAS_HLSTL5A == Alias(<<"H","L","S","T","L","5","A">>, ADDR_CLX, <<>>)

ALIAS_MSG == Alias(<<"P","L","C","5","_","D","a","t","a">>, <<"N","1","0","_","R","[","3","]">>, <<>>)

ALIAS_CONSUMED == Alias(<<"H","e","a","t","_","P","e","r","m">>, <<"T","a","n","k","s","[","1","1","9","]",".","D","e","v","i","c","e",".","H","e","a","t">>, <<>>)

\* modules of an L5X file: an E300 overload relay and a bridge
MODULES ==
  << Module(<<"P","6","2","1">>, <<"1","9","3","-","E","C","M","-","E","T","R","/","A">>, <<ADDR_ENET>>),
     Module(<<"E","N","E","T">>, <<"1","7","5","6","-","E","N","2","T">>, <<<<"1","9","2",".","1","6","8",".","1",".","1">>>>) >>

\* operands of rung CDATA, lowercased
REF_OTHER == <<"s","o","m","e","_","o","t","h","e","r","_","t","a","g">>

\* the L5X files of the model
L5XDataPool ==
  { L5XData(<<>>, <<>>, <<>>),
    L5XData(<<>>, <<>>, <<REF_OTHER>>),
    L5XData(<<>>, <<>>, <<lower(ADDR_PLC5), lower(ADDR_CLX), REF_OTHER>>),
    L5XData(<<ALIAS_P621>>, <<>>, <<>>),
    L5XData(<<ALIAS_P621>>, <<>>, <<lower(ALIAS_P621.name)>>),
    L5XData(<<ALIAS_P621, ALIAS_P621B>>, <<>>, <<REF_OTHER>>),
    L5XData(<<ALIAS_P621_MONITOR, ALIAS_P621_READ5>>, <<>>, <<>>),
    L5XData(<<ALIAS_HLSTL5A, ALIAS_MSG, ALIAS_CONSUMED>>, MODULES,
            <<REF_OTHER>>),
    L5XData(<<>>, MODULES, <<>>) }

\* the PLCTag objects after the iteration e for the result r
TagsAfter(r, e) ==
  LET filled == IF r.plc_tag # 0
                THEN [plc_tags EXCEPT ![r.plc_tag].description = e.description]
                ELSE plc_tags
  IN IF e.upgraded THEN Append(filled, e.new_tag) ELSE filled

\* the IO list, the PLC tags and the L5X file are loaded;
\* l5x_enrichment = extract_l5x_enrichment(l5x_data)
EnrichInit ==
  /\ io_devices \in SeqsUpTo(EnrichDevicePool, MaxDevices)
  /\ \E tags \in SeqsUpTo(EnrichTagPool, MaxTags) :
       plc_tags = [k \in 1..Len(tags) |->
                     [tags[k] EXCEPT !.source_line = SourceLine("parsed", k)]]
  /\ results = <<>>
  /\ l5x_enrichment \in {extract_l5x_enrichment(data) : data \in L5XDataPool}
  /\ pc = "loaded"
  /\ matched_plc_tags = {}
  /\ i = 0
  /\ s = 0
  /\ j = 0
  /\ calls = <<>>
  /\ returned = <<>>
  /\ snap = <<>>
  /\ passes = 0
  /\ arg = None
  /\ ret = None

\* for r in results: r.sources = ["CSV", "XLSX"]
MarkSources(R) == [k \in 1..Len(R) |-> [R[k] EXCEPT !.sources = <<"CSV", "XLSX">>]]

\* results = engine.run(io_devices, plc_tags), with the baseline sources
EngineRun ==
  /\ pc = "loaded"
  /\ results' = Only({MarkSources(R) : R \in {RunResults}})
  /\ pc' = "idle"
  /\ UNCHANGED <<fvars, io_devices, plc_tags, matched_plc_tags, i, s, j, calls,
                 returned, l5x_enrichment, snap, passes>>

\* enrich_results(results, l5x_enrichment) is called
EnrichCall ==
  /\ pc = "idle"
  /\ passes < MaxPasses
  /\ pc' = "enrich"
  /\ i' = 1
  /\ snap' = Append(snap, [results |-> results, plc_tags |-> plc_tags])
  /\ UNCHANGED <<fvars, io_devices, plc_tags, results, matched_plc_tags, s, j,
                 calls, returned, l5x_enrichment, passes>>

\* for result in results: one iteration that runs to its end
EnrichStep(has_rack_only) ==
  /\ pc = "enrich"
  /\ i <= Len(results)
  /\ LET e == Enriched(results[i], has_rack_only)
     IN /\ ~e.raised
        /\ plc_tags' = TagsAfter(results[i], e)
        /\ results' =
             [results EXCEPT
                ![i] = [e.result EXCEPT
                          !.plc_tag = IF e.upgraded THEN Len(plc_tags) + 1
                                      ELSE @]]
  /\ i' = i + 1
  /\ UNCHANGED <<fvars, io_devices, pc, matched_plc_tags, s, j, calls, returned,
                 l5x_enrichment, snap, passes>>

\* one iteration with the enum Classification as models.py declares it
EnrichResult == EnrichStep(RACK_ONLY_defined)

\* for result in results: the iteration raises AttributeError at
\* Classification.RACK_ONLY, after the description fill
EnrichRaise ==
  /\ pc = "enrich"
  /\ i <= Len(results)
  /\ LET e == Enriched(results[i], RACK_ONLY_defined)
     IN /\ e.raised
        /\ plc_tags' = TagsAfter(results[i], [e EXCEPT !.upgraded = FALSE])
  /\ pc' = "raised"
  /\ UNCHANGED <<fvars, io_devices, results, matched_plc_tags, i, s, j, calls,
                 returned, l5x_enrichment, snap, passes>>

\* return results
EnrichReturn ==
  /\ pc = "enrich"
  /\ i > Len(results)
  /\ pc' = "idle"
  /\ passes' = passes + 1
  /\ UNCHANGED <<fvars, io_devices, plc_tags, results, matched_plc_tags, i, s, j,
                 calls, returned, l5x_enrichment, snap>>

EnrichNext ==
  \/ EngineRun
  \/ EnrichCall
  \/ EnrichResult
  \/ EnrichRaise
  \/ EnrichReturn

EnrichSpec == EnrichInit /\ [][EnrichNext]_vars

(***************************************************************************)
(* enrich_results on Rack Only results.  No code of the repository makes   *)
(* a Rack Only result: the results are those strategy 3 of the             *)
(* specification makes, and Classification.RACK_ONLY is taken as declared. *)
(***************************************************************************)
\* the devices at a CLX address and the rack-level TAG of their rack
RackDevicePool ==
  { IODevice(ADDR_CLX, <<"H","L","S","T","L","5","A","_","P","u","l","s","e">>, <<"H","L","S","T","L","5","A">>),
    IODevice(ADDR_CLX, <<"S","p","a","r","e","P","o","i","n","t">>, <<"F","T","6","5","6","B">>) }

RACK_TAG == PLCTag("TAG", <<"R","a","c","k","0",":","I">>, <<>>, <<>>, 2)

\* the result of Rack-Level Existence: Rack Only, Partial confidence
RackLevelResult(d, t) ==
  MarkSources(<<MatchResult(d, t, 3, "Partial", "Rack Only", FALSE, <<>>)>>)[1]

RackOnlyInit ==
  /\ io_devices \in SeqsUpTo(RackDevicePool, MaxDevices) \ {<<>>}
  /\ plc_tags = <<RACK_TAG>>
  /\ results = [d \in 1..Len(io_devices) |-> RackLevelResult(d, 1)]
  /\ l5x_enrichment \in {extract_l5x_enrichment(data) : data \in L5XDataPool}
  /\ pc = "idle"
  /\ matched_plc_tags = {}
  /\ i = 0
  /\ s = 0
  /\ j = 0
  /\ calls = <<>>
  /\ returned = <<>>
  /\ snap = <<>>
  /\ passes = 0
  /\ arg = None
  /\ ret = None

\* one iteration with Classification.RACK_ONLY declared
EnrichRackOnly == EnrichStep(TRUE)

RackOnlyNext ==
  \/ EnrichCall
  \/ EnrichRackOnly
  \/ EnrichReturn

RackOnlySpec == RackOnlyInit /\ [][RackOnlyNext]_vars

(***************************************************************************)
(* Properties of MatchingEngine.run                                        *)
(***************************************************************************)
SPARE == <<"s","p","a","r","e">>

\* the positions of the results of R that carry device d
ResultsOf(R, d) == {k \in 1..Len(R) : R[k].io_device = d}

Returned == pc = "idle" /\ returned # <<>>

\* C1: every list returned by run holds exactly one result for each input
\* device: as many results carry a device as there are devices, and no
\* device is carried by two results.
C1_OneResultPerDevice ==
  \A r \in 1..Len(returned) :
    LET R == returned[r]
    IN /\ Cardinality({k \in 1..Len(R) : R[k].io_device # 0})
            = Len(io_devices)
       /\ \A d \in 1..Len(io_devices) : Cardinality(ResultsOf(R, d)) = 1

\* a returned list for a spare device and a matched device, with a
\* PLC-only result after them
C1_Witness ==
  /\ Returned
  /\ Len(io_devices) = 2
  /\ \E k \in 1..Len(results) : results[k].classification = "Spare"
  /\ \E k \in 1..Len(results) :
       results[k].io_device # 0 /\ results[k].strategy_id # 0
  /\ \E k \in 1..Len(results) : results[k].classification = "PLC Only"

\* C2: a result that carries strategy_id k is the result of strategy k for
\* its device, every strategy before k in the order 1, 2, 4, 5 was called
\* and declined, and no strategy after k was called.
C2_FirstStrategyWins ==
  \A k \in 1..Len(results) :
    LET r == results[k]
        d == r.io_device
        UpTo(e) == e <= r.strategy_id
    IN (d # 0 /\ r.strategy_id # 0) =>
         /\ r = Match(r.strategy_id, d)
         /\ calls[d] = SelectSeq(<<1, 2, 4, 5>>, UpTo)
         /\ \A e \in {1, 2, 4, 5} :
              e < r.strategy_id => Match(e, d) = NoResult

\* a Direct Modern-Address hit kept for a device that Normalized Name
\* Match would match too
C2_Witness ==
  /\ Returned
  /\ \E k \in 1..Len(results) :
       /\ results[k].strategy_id = 1
       /\ TagNameNormalizationMatch(results[k].io_device) # NoResult

\* C3: a Direct Modern-Address hit is Conflict/Exact with conflict_flag set
\* when the Comment's description and the device's name (io_tag or
\* device_tag, normalized) are both non-empty and the description equals
\* neither, and it is Both/Exact without the flag otherwise.
C3_ConflictIffNamesDisagree ==
  \A k \in 1..Len(results) :
    LET r == results[k]
        dev == io_devices[r.io_device]
        names == {normalize_tag(dev.io_tag), normalize_tag(dev.device_tag)}
                   \ {<<>>}
        desc == lower(strip(plc_tags[r.plc_tag].description))
    IN r.strategy_id = 1 =>
         /\ r.confidence = "Exact"
         /\ IF desc # <<>> /\ names # {} /\ desc \notin names
            THEN r.classification = "Conflict" /\ r.conflict_flag
            ELSE r.classification = "Both" /\ ~r.conflict_flag

\* C4: a Normalized Name hit pairs the device with a tag whose normalized
\* base_name or trimmed, lowercased description equals the device's
\* normalized io_tag or device_tag, and it is Both with High confidence.
C4_ExactNameOnly ==
  \A k \in 1..Len(results) :
    LET r == results[k]
        dev == io_devices[r.io_device]
        tag == plc_tags[r.plc_tag]
        dev_names == {normalize_tag(dev.io_tag), normalize_tag(dev.device_tag)}
                       \ {<<>>}
        tag_names == {normalize_tag(tag.base_name),
                      lower(strip(tag.description))} \ {<<>>}
    IN r.strategy_id = 5 =>
         /\ r.io_device # 0
         /\ r.plc_tag # 0
         /\ dev_names \cap tag_names # {}
         /\ r.classification = "Both"
         /\ r.confidence = "High"
         /\ ~r.conflict_flag

\* the name x is a proper prefix of the name y
ProperPrefix(x, y) == Len(x) < Len(y) /\ startswith(y, x)

\* a Normalized Name hit on the second tag, after a first tag of which the
\* device's name is only a proper prefix
C4_Witness ==
  /\ Returned
  /\ \E k \in 1..Len(results) :
       /\ results[k].strategy_id = 5
       /\ results[k].plc_tag = 2
       /\ ProperPrefix(normalize_tag(io_devices[results[k].io_device].device_tag),
                       normalize_tag(plc_tags[1].base_name))

\* C5: the result of a device whose io_tag, trimmed and lowercased, is
\* 'spare' is Spare with no PLCTag and strategy_id 0, and no strategy was
\* called for it; the result of any other device is not Spare and at least
\* one strategy was called for it.
C5_SpareSkipsCascade ==
  \A k \in 1..Len(results) :
    LET r == results[k]
        d == r.io_device
    IN d # 0 =>
         IF lower(strip(io_devices[d].io_tag)) = SPARE
         THEN /\ r.classification = "Spare"
              /\ r.plc_tag = 0
              /\ r.strategy_id = 0
              /\ calls[d] = <<>>
         ELSE /\ r.classification # "Spare"
              /\ calls[d] # <<>>

\* a Spare result for a device that a strategy would have matched, next to
\* a device whose io_tag only contains 'spare'
C5_Witness ==
  /\ Returned
  /\ \E k \in 1..Len(results) :
       /\ results[k].classification = "Spare"
       /\ \E e \in {1, 2, 4, 5} : Match(e, results[k].io_device) # NoResult
  /\ \E k \in 1..Len(results) :
       /\ results[k].io_device # 0
       /\ results[k].classification # "Spare"
       /\ is_spare_contains(io_devices[results[k].io_device].io_tag)

\* C6: in every returned list a tag has a PLCOnly result exactly when it is
\* a Tag-kind record with an EtherNet/IP prefix that no result pairs with a
\* device.
C6_PLCOnlyIffUnpaired ==
  \A r \in 1..Len(returned) :
    LET R == returned[r]
    IN \A t \in 1..Len(plc_tags) :
         (\E k \in 1..Len(R) :
            R[k].classification = "PLC Only" /\ R[k].plc_tag = t)
         <=>
         (/\ plc_tags[t].record_type = "TAG"
          /\ is_enet_device_tag(plc_tags[t])
          /\ ~\E k \in 1..Len(R) : R[k].io_device # 0 /\ R[k].plc_tag = t)

\* C7: the result of a non-spare Modern-format device for which Direct
\* Modern-Address Match declines, while a Tag-kind record is named like
\* the rack base of the device address, is RackOnly with Partial
\* confidence and strategy_id 3.
C7_RackOnlyWhenRackTagExists ==
  \A k \in 1..Len(results) :
    LET r == results[k]
        d == r.io_device
        base == extract_rack_base(io_devices[d].plc_address)
    IN (/\ d # 0
        /\ lower(strip(io_devices[d].io_tag)) # SPARE
        /\ io_devices[d].address_format = "CLX"
        /\ DirectCLXAddressMatch(d) = NoResult
        /\ base # None
        /\ \E t \in 1..Len(plc_tags) :
             /\ plc_tags[t].record_type = "TAG"
             /\ lower(strip(plc_tags[t].name)) = lower(base))
       => /\ r.classification = "Rack Only"
          /\ r.confidence = "Partial"
          /\ r.strategy_id = 3

\* C8: a run that has started is always at a step it can take (the spare
\* test, a strategy, the fallback, a tag of phase 2 or the return), and
\* the result of a non-spare device for which every strategy declines is
\* FacilityOnly (IO List Only) with no PLCTag, strategy_id 0, no conflict
\* flag and an audit entry that lists the strategies called.
C8_TerminatesWithFacilityOnly ==
  /\ pc = "run" => (AtSpare \/ AtStrategy \/ AtNoMatch \/ InPhase2 \/ AtReturn)
  /\ \A k \in 1..Len(results) :
       LET r == results[k]
           d == r.io_device
       IN (/\ d # 0
           /\ lower(strip(io_devices[d].io_tag)) # SPARE
           /\ \A e \in {1, 2, 4, 5} : Match(e, d) = NoResult)
          => /\ r.classification = "IO List Only"
             /\ r.plc_tag = 0
             /\ r.strategy_id = 0
             /\ ~r.conflict_flag
             /\ Len(calls[d]) = 4
             /\ \E n \in 1..Len(r.audit_trail) :
                  /\ r.audit_trail[n].text = "Strategies evaluated: {}"
                  /\ r.audit_trail[n].args[1] =
                       [m \in 1..Len(calls[d]) |-> StrategyName(calls[d][m])]

\* a returned FacilityOnly result for the device whose fields are all
\* empty, from tags that include one with an empty name
C8_Witness ==
  /\ Returned
  /\ \E k \in 1..Len(results) :
       /\ results[k].classification = "IO List Only"
       /\ io_devices[results[k].io_device].io_tag = <<>>
       /\ io_devices[results[k].io_device].device_tag = <<>>
       /\ io_devices[results[k].io_device].plc_address = <<>>
  /\ \E t \in 1..Len(plc_tags) : plc_tags[t].name = <<>>

\* C9: every result of every returned list has a non-empty audit_trail.
C9_AuditTrailNonEmpty ==
  \A r \in 1..Len(returned) :
    \A k \in 1..Len(returned[r]) : returned[r][k].audit_trail # <<>>

\* a returned list with results of three classifications, PLC Only among
\* them
C9_Witness ==
  /\ Returned
  /\ Cardinality({results[k].classification : k \in 1..Len(results)}) >= 3
  /\ \E k \in 1..Len(results) : results[k].classification = "PLC Only"

\* C10: any two lists returned for the same inputs have the same length
\* and agree, position by position, on classification, strategy_id and
\* confidence.
C10_Deterministic ==
  \A a \in 1..Len(returned) :
    \A b \in 1..Len(returned) :
      /\ Len(returned[a]) = Len(returned[b])
      /\ \A k \in 1..Len(returned[a]) :
           /\ returned[a][k].classification = returned[b][k].classification
           /\ returned[a][k].strategy_id = returned[b][k].strategy_id
           /\ returned[a][k].confidence = returned[b][k].confidence

\* two completed runs, each of which paired a device and reported a
\* leftover tag
C10_Witness ==
  /\ Len(returned) >= 2
  /\ \E k \in 1..Len(returned[2]) : returned[2][k].strategy_id # 0
  /\ \E k \in 1..Len(returned[2]) : returned[2][k].classification = "PLC Only"

\* C11: every returned list is the results of the devices in input order
\* (the i-th result carries the i-th device) followed by PLCOnly results
\* without a device, whose tags are in input order.
C11_DevicesThenPLCOnlyInOrder ==
  \A r \in 1..Len(returned) :
    LET R == returned[r]
        n == Len(io_devices)
    IN /\ Len(R) >= n
       /\ \A k \in 1..n : R[k].io_device = k
       /\ \A k \in (n + 1)..Len(R) :
            /\ R[k].io_device = 0
            /\ R[k].classification = "PLC Only"
            /\ R[k].plc_tag # 0
       /\ \A k \in (n + 1)..Len(R) :
            \A m \in (k + 1)..Len(R) : R[k].plc_tag < R[m].plc_tag

\* a returned list of two device results followed by two PLCOnly results
C11_Witness ==
  /\ Returned
  /\ Len(io_devices) = 2
  /\ Len(results) = 4
  /\ results[3].classification = "PLC Only"
  /\ results[4].classification = "PLC Only"

\* C20: no result pairs a device with a RungComment record and no
\* RungComment record is reported PLCOnly: no result refers to one.
C20_RungCommentsExcluded ==
  \A k \in 1..Len(results) :
    results[k].plc_tag # 0 =>
      plc_tags[results[k].plc_tag].record_type # "RCOMMENT"

(***************************************************************************)
(* Functions called on their own.  arg is the argument of the call and ret *)
(* the function called with the value it returned; the variables of        *)
(* MatchingEngine.run and of enrich_results stay as FnIdle sets them.      *)
(***************************************************************************)
\* no call of run or of enrich_results: pc names the module under call
FnIdle(module) ==
  /\ pc = module
  /\ io_devices = <<>>
  /\ plc_tags = <<>>
  /\ results = <<>>
  /\ matched_plc_tags = {}
  /\ i = 0
  /\ s = 0
  /\ j = 0
  /\ calls = <<>>
  /\ returned = <<>>
  /\ l5x_enrichment = NoEnrichment
  /\ snap = <<>>
  /\ passes = 0

\* a call of a function changes nothing but ret
FnFrame ==
  UNCHANGED <<io_devices, plc_tags, pc, results, matched_plc_tags, i, s, j,
              calls, returned, l5x_enrichment, snap, passes, arg>>

\* the value a call returned
Ret(fn, value) == [fn |-> fn, value |-> value]

\* no function has been called
NotCalled == Ret("", None)

(***************************************************************************)
(* normalizers.py: normalize_tag and strip_suffixes on the names of        *)
(* tests/test_normalizers.py: a base name, then no, one or two suffixes.   *)
(***************************************************************************)
NameBases == {<<"P","1","0","0">>, <<"T","S","V","2","2">>, <<"A","S","6","1","1">>}

\* the known suffixes as they are and lowercased, and no suffix
FirstTails ==
  {<<>>} \cup {KNOWN_SUFFIXES[k] : k \in 1..Len(KNOWN_SUFFIXES)}
         \cup {lower(KNOWN_SUFFIXES[k]) : k \in 1..Len(KNOWN_SUFFIXES)}

SecondTails == {<<>>, <<"_","O","l","d">>, <<"_","E","V">>, <<"_","a","u","x">>}

NamePool ==
  {b \o t1 \o t2 : b \in NameBases, t1 \in FirstTails, t2 \in SecondTails}
    \cup {<<>>, <<" "," ">>, <<"L","T","6","1","1">>,
          <<" "," ","T","S","V","2","2","_","E","V"," "," ">>,
          <<"_","E","V">>}

\* the suffixes argument: the default, and the lists of
\* test_custom_suffix_list and test_longest_suffix_wins
SuffixListPool ==
  { KNOWN_SUFFIXES,
    << <<"_","C","u","s","t","o","m">> >>,
    << <<"_","F","a","i","l","e","d","_","O","l","d">>, <<"_","O","l","d">> >>,
    << <<"_","O","l","d">>, <<"_","F","a","i","l","e","d","_","O","l","d">> >> }

NormalizeInit ==
  /\ FnIdle("normalizers")
  /\ arg \in [tag : NamePool, suffixes : SuffixListPool]
  /\ ret = NotCalled

\* strip_suffixes(tag, suffixes)
StripSuffixesCall ==
  /\ pc = "normalizers"
  /\ ret' = Ret("strip_suffixes", strip_suffixes(arg.tag, arg.suffixes))
  /\ FnFrame

\* normalize_tag(tag)
NormalizeTagCall ==
  /\ pc = "normalizers"
  /\ ret' = Ret("normalize_tag", normalize_tag(arg.tag))
  /\ FnFrame

NormalizeNext ==
  \/ StripSuffixesCall
  \/ NormalizeTagCall

NormalizeSpec == NormalizeInit /\ [][NormalizeNext]_vars

(***************************************************************************)
(* classifiers.py: classify_tag on the tags of tests/test_classifiers.py.  *)
(***************************************************************************)
\* a PLCTag with the fields classify_tag reads
TypedTag(record_type, name, datatype, specifier) ==
  [record_type |-> record_type, name |-> name, datatype |-> datatype,
   specifier |-> specifier]

\* is_alias_tag
is_alias_tag(tag) == tag.record_type = "ALIAS"

\* is_io_module_tag: dt = tag.datatype.strip().upper()
is_io_module_tag(tag) ==
  LET dt == upper(strip(tag.datatype))
  IN startswith(dt, <<"A","B",":">>) \/ startswith(dt, <<"E","H",":">>)

\* is_rack_io_tag: _RACK_IO_PATTERN ^Rack\d+:[IO]$ on tag.name.strip()
is_rack_io_tag(tag) ==
  LET name == strip(tag.name)
      e == rack_digits_end(name)
  IN /\ e > 0
     /\ At(name, e) = ":"
     /\ is_IO(At(name, e + 1))
     /\ Len(name) = e + 1

\* _PROGRAM_DATATYPES
PROGRAM_DATATYPES ==
  { <<"d","i","n","t">>, <<"r","e","a","l">>, <<"i","n","t">>,
    <<"b","o","o","l">>, <<"t","i","m","e","r">>,
    <<"c","o","u","n","t","e","r">>, <<"s","t","r","i","n","g">> }

\* is_program_tag: dt = tag.datatype.strip().lower()
is_program_tag(tag) == lower(strip(tag.datatype)) \in PROGRAM_DATATYPES

\* the datatype rules tried before the name rules, which the code does not
\* do
classify_tag_datatype_first(tag) ==
  IF is_alias_tag(tag) THEN "Alias"
  ELSE IF tag.record_type = "COMMENT" /\ tag.specifier # <<>>
  THEN "Bit_Level_Comment"
  ELSE IF is_io_module_tag(tag) THEN "IO_Module"
  ELSE IF is_program_tag(tag) THEN "Program"
  ELSE IF is_enet_device_tag(tag) THEN "ENet_Device"
  ELSE IF is_rack_io_tag(tag) THEN "Rack_IO"
  ELSE "Unknown"

\* classify_tag: the value of the TagCategory returned
classify_tag(tag) ==
  IF is_alias_tag(tag) THEN "Alias"
  ELSE IF tag.record_type = "COMMENT" /\ tag.specifier # <<>>
  THEN "Bit_Level_Comment"
  ELSE IF is_enet_device_tag(tag) THEN "ENet_Device"
  ELSE IF is_io_module_tag(tag) THEN "IO_Module"
  ELSE IF is_rack_io_tag(tag) THEN "Rack_IO"
  ELSE IF is_program_tag(tag) THEN "Program"
  ELSE "Unknown"

RecordTypes == {"TAG", "COMMENT", "ALIAS", "RCOMMENT"}

ClassifyNamePool ==
  { <<"E","3","0","0","_","P","6","2","1",":","I">>,
    <<"v","f","d","_","P","1","0","0">>,
    <<"R","a","c","k","1","1",":","I">>,
    <<" ","r","a","c","k","0",":","o"," ">>,
    <<"R","a","c","k","1","1",":","I",".","D","a","t","a">>,
    <<"R","a","c","k",":","I">>,
    <<"L","o","c","a","l",":","1",":","I",".","D","a","t","a",".","0">>,
    <<"M","y","V","a","r">>,
    <<>> }

DatatypePool ==
  { <<"A","B",":","1","7","5","6","_","I","F","8",":","I",":","0">>,
    <<"A","B",":","E","3","0","0","_","O","L",":","I",":","0">>,
    <<" ","e","h",":","x">>,
    <<"D","I","N","T">>,
    <<" ","b","o","o","l"," ">>,
    <<"M","y","U","D","T">>,
    <<>> }

SpecifierPool == {<<>>, SPEC_CLX}

ClassifyInit ==
  /\ FnIdle("classifiers")
  /\ arg \in {TypedTag(record_type, name, datatype, specifier) :
                record_type \in RecordTypes, name \in ClassifyNamePool,
                datatype \in DatatypePool, specifier \in SpecifierPool}
  /\ ret = NotCalled

\* classify_tag(tag)
ClassifyTagCall ==
  /\ pc = "classifiers"
  /\ ret' = Ret("classify_tag", classify_tag(arg))
  /\ FnFrame

ClassifyNext == ClassifyTagCall

ClassifySpec == ClassifyInit /\ [][ClassifyNext]_vars

(***************************************************************************)
(* l5x_to_crosscheck.py: extract_l5x_enrichment on lists of alias          *)
(* definitions.  l5x_extractor.py leaves alias_for at None when the target *)
(* of an alias cannot be read; None and "" are both the empty string here. *)
(***************************************************************************)
ALIAS_NO_TARGET == Alias(<<"P","6","2","2">>, <<>>, <<>>)

ALIAS_NO_NAME == Alias(<<>>, ADDR_CLX, <<>>)

AliasPool ==
  { ALIAS_P621, ALIAS_P621_MONITOR, ALIAS_HLSTL5A, ALIAS_MSG, ALIAS_CONSUMED,
    ALIAS_NO_TARGET, ALIAS_NO_NAME }

ExtractInit ==
  /\ FnIdle("l5x_to_crosscheck")
  /\ arg \in SeqsUpTo(AliasPool, MaxAliases)
  /\ ret = NotCalled

\* extract_l5x_enrichment(data)
ExtractCall ==
  /\ pc = "l5x_to_crosscheck"
  /\ ret' = Ret("extract_l5x_enrichment",
                extract_l5x_enrichment(L5XData(arg, <<>>, <<>>)))
  /\ FnFrame

ExtractNext == ExtractCall

ExtractSpec == ExtractInit /\ [][ExtractNext]_vars

(***************************************************************************)
(* Properties of enrich_results.  snap holds, for every call, the results  *)
(* and the PLCTag objects as the call found them.                          *)
(***************************************************************************)
\* the k-th result as the engine returned it
Original(k) == snap[1].results[k]

\* the k-th result as the current call, or the last one, found it
Before(k) == snap[Len(snap)].results[k]

\* the loop of the current call has got to the k-th result, or the last
\* call returned
Processed(k) ==
  /\ snap # <<>>
  /\ pc = "idle" \/ k < i \/ (pc = "raised" /\ k = i)

\* a call of enrich_results has ended: it returned or it raised
CallEnded == snap # <<>> /\ pc \in {"idle", "raised"}

\* the audit entries the current call, or the last one, appended
Appended(k) ==
  SubSeq(results[k].audit_trail, Len(Before(k).audit_trail) + 1,
         Len(results[k].audit_trail))

\* an audit entry of the given text is in the trail
HasNote(trail, text) == \E n \in 1..Len(trail) : trail[n].text = text

\* a is the beginning of b
IsPrefix(a, b) == Len(a) <= Len(b) /\ SubSeq(b, 1, Len(a)) = a

\* the aliases indexed at the address of the device of r
AliasesAt(r) ==
  LET addr_key == normalize_address(io_devices[r.io_device].plc_address)
  IN IF addr_key \in DOMAIN l5x_enrichment.alias_by_address
     THEN l5x_enrichment.alias_by_address[addr_key] ELSE <<>>

\* r has a device at a CLX or PLC5 address with no alias indexed at it
RackNoAlias(r) ==
  /\ r.io_device # 0
  /\ detect_address_format(io_devices[r.io_device].plc_address)
       \in {"CLX", "PLC5"}
  /\ AliasesAt(r) = <<>>

\* the address of the device of r is in the rung references
AddressReferenced(r) ==
  lower(io_devices[r.io_device].plc_address) \in l5x_enrichment.rung_references

\* C12: when the rung references are empty, no call of enrich_results
\* raises and every result keeps the classification and the conflict_flag
\* the engine gave it: a result at a rack address without alias is not
\* flagged as unused and a Spare result stays Spare.
C12_NoReferencesNoReclassification ==
  (snap # <<>> /\ l5x_enrichment.rung_references = {}) =>
    /\ pc # "raised"
    /\ \A k \in 1..Len(results) :
         /\ results[k].classification = Original(k).classification
         /\ results[k].conflict_flag = Original(k).conflict_flag

\* enrichment without rung references has returned for a Both result at a
\* rack address without alias and for a Spare result with an address
C12_Witness ==
  /\ pc = "idle"
  /\ passes >= 1
  /\ l5x_enrichment.rung_references = {}
  /\ \E k \in 1..Len(results) :
       /\ RackNoAlias(results[k])
       /\ results[k].classification = "Both"
       /\ ~results[k].conflict_flag
  /\ \E k \in 1..Len(results) :
       /\ results[k].classification = "Spare"
       /\ io_devices[results[k].io_device].plc_address # <<>>

\* C13: with rung references, a non-Spare result at a CLX or PLC5 address
\* with no alias keeps its classification and gains a 'used in logic'
\* entry when the lowercased address is referenced, and otherwise is
\* reclassified Rack Only with conflict_flag set and a 'may be unused'
\* entry; a result with an alias at its address, or at another kind of
\* address, is not reclassified by this rule.
C13_RungPassReclassifiesUnreferenced ==
  \A k \in 1..Len(results) :
    (/\ Processed(k)
     /\ l5x_enrichment.rung_references # {}
     /\ Before(k).classification # "Spare") =>
      IF RackNoAlias(Before(k))
      THEN IF AddressReferenced(Before(k))
           THEN /\ results[k].classification = Before(k).classification
                /\ HasNote(Appended(k), USED_IN_LOGIC)
           ELSE /\ results[k].classification = "Rack Only"
                /\ results[k].conflict_flag
                /\ HasNote(Appended(k), MAY_BE_UNUSED)
      ELSE results[k].classification = Before(k).classification

\* the Spare result r has an address, and the address or the name of an
\* alias indexed at it is in the non-empty rung references
SpareReferenced(r) ==
  /\ r.io_device # 0
  /\ io_devices[r.io_device].plc_address # <<>>
  /\ l5x_enrichment.rung_references # {}
  /\ \/ AddressReferenced(r)
     \/ \E n \in 1..Len(AliasesAt(r)) :
          lower(AliasesAt(r)[n].name) \in l5x_enrichment.rung_references

\* C14: when a call of enrich_results has ended, a result that was Spare
\* is Conflict with conflict_flag set if and only if it has an address and
\* the address, or the name of an alias indexed at it, is in the non-empty
\* rung references; otherwise it is still Spare with conflict_flag unset.
\* A Spare result is never Rack Only.
C14_SpareConflictIffReferenced ==
  \A k \in 1..Len(results) :
    (CallEnded /\ Before(k).classification = "Spare") =>
      IF SpareReferenced(Before(k))
      THEN results[k].classification = "Conflict" /\ results[k].conflict_flag
      ELSE results[k].classification = "Spare" /\ ~results[k].conflict_flag

\* the PLCTag of the result after is the PLCTag the result before had
\* among the PLCTag objects tags, with the same fields, its description
\* aside if that was empty
SameTag(before, tags, after) ==
  \/ before.plc_tag = 0 /\ after.plc_tag = 0
  \/ /\ before.plc_tag # 0
     /\ after.plc_tag = before.plc_tag
     /\ LET b == tags[before.plc_tag]
            a == plc_tags[after.plc_tag]
        IN /\ a.record_type = b.record_type
           /\ a.name = b.name
           /\ a.base_name = b.base_name
           /\ a.specifier = b.specifier
           /\ a.source_line = b.source_line
           /\ a.description = b.description \/ b.description = <<>>

\* the PLCTag of the result after is a new PLCTag that carries the name and
\* the address of the one alias indexed at the address of the device
AliasTag(before, tags, after) ==
  /\ before.plc_tag # 0
  /\ after.plc_tag > Len(tags)
  /\ Len(AliasesAt(before)) = 1
  /\ \E n \in 1..Len(AliasesAt(before)) :
       LET alias == AliasesAt(before)[n]
           a == plc_tags[after.plc_tag]
       IN /\ a.record_type = "TAG"
          /\ a.name = alias.name
          /\ a.specifier = alias.alias_for
          /\ \/ a.description
                  \in {alias.description, plc_tags[before.plc_tag].description}
             \/ /\ alias.description = <<>>
                /\ plc_tags[before.plc_tag].description = <<>>

\* the result after differs from the result before in nothing but sources
\* and audit entries, which it may have gained
GainsOnly(before, after) ==
  /\ after.io_device = before.io_device
  /\ after.strategy_id = before.strategy_id
  /\ after.confidence = before.confidence
  /\ after.conflict_flag = before.conflict_flag
  /\ IsPrefix(before.sources, after.sources)
  /\ IsPrefix(before.audit_trail, after.audit_trail)

\* the classifications the claim calls enrichment-invariant
Invariant_Classifications == {"Both", "Conflict", "IO List Only", "PLC Only"}

C16_RackOnlyWithAliasBecomesBoth ==
  \A k \in 1..Len(results) :
    (/\ Processed(k)
     /\ Original(k).classification = "Rack Only"
     /\ AliasesAt(Original(k)) # <<>>) =>
      results[k].classification = "Both"

\* how many times "L5X" is in sources
CountL5X(sources) == Cardinality({n \in 1..Len(sources) : sources[n] = "L5X"})

\* C17: after any number of calls of enrich_results every sources list
\* holds "L5X" at most once, a call leaves sources as they were or appends
\* "L5X" alone, and a result holds "L5X" exactly when enrichment appended
\* an audit entry to it.
C17_L5XSourceOnceIffConfirmed ==
  \A k \in 1..Len(results) :
    snap # <<>> =>
      /\ CountL5X(results[k].sources) <= 1
      /\ \/ results[k].sources = Before(k).sources
         \/ results[k].sources = Append(Before(k).sources, "L5X")
      /\ CountL5X(results[k].sources) = 1
           <=> Len(results[k].audit_trail) > Len(Original(k).audit_trail)

\* enrichment has returned twice: one result was confirmed in both calls
\* and holds "L5X" once, another was never confirmed and does not hold it
C17_Witness ==
  /\ pc = "idle"
  /\ passes = 2
  /\ \E k \in 1..Len(results) :
       /\ CountL5X(Before(k).sources) = 1
       /\ Appended(k) # <<>>
       /\ CountL5X(results[k].sources) = 1
  /\ \E k \in 1..Len(results) :
       /\ results[k].audit_trail = Original(k).audit_trail
       /\ CountL5X(results[k].sources) = 0

\* the results of the engine that refer to the PLCTag object t
Referrers(t) == {k \in 1..Len(snap[1].results) : Original(k).plc_tag = t}

C19_DescriptionNeverOverwritten ==
  snap # <<>> =>
    \A t \in 1..Len(snap[1].plc_tags) :
      LET before == snap[1].plc_tags[t]
          name == normalize_tag(before.name)
      IN /\ before.description # <<>> =>
              plc_tags[t].description = before.description
         /\ plc_tags[t].description # before.description =>
              /\ before.description = <<>>
              /\ Referrers(t) # {}
              /\ name \in DOMAIN l5x_enrichment.alias_by_name
              /\ plc_tags[t].description
                   = l5x_enrichment.alias_by_name[name].description
              /\ plc_tags[t].description # <<>>

\* enrichment has returned: a PLCTag with a description is the tag of a
\* result and has an alias with another description
C19_Witness ==
  /\ pc = "idle"
  /\ passes >= 1
  /\ \E t \in 1..Len(snap[1].plc_tags) :
       /\ snap[1].plc_tags[t].description # <<>>
       /\ Referrers(t) # {}
       /\ normalize_tag(plc_tags[t].name) \in DOMAIN l5x_enrichment.alias_by_name
       /\ l5x_enrichment.alias_by_name[normalize_tag(plc_tags[t].name)].description
            \notin {<<>>, plc_tags[t].description}

\* the results that carry both an IODevice and a PLCTag
Paired(r) == r.io_device # 0 /\ r.plc_tag # 0

\* C30: in every result returned by run the fields agree with the
\* classification: a result is Both or Conflict exactly when it has an
\* io_device and a plc_tag, and then its strategy_id is not 0; a Spare or
\* IO List Only result has an io_device, no plc_tag and strategy_id 0; a
\* PLC Only result has a plc_tag, no io_device and strategy_id 0.
C30_FieldsAgreeWithClassification ==
  \A n \in 1..Len(returned) :
    \A k \in 1..Len(returned[n]) :
      LET r == returned[n][k]
      IN /\ r.classification \in {"Both", "Conflict"} <=> Paired(r)
         /\ Paired(r) => r.strategy_id # 0
         /\ r.classification \in {"Spare", "IO List Only"} =>
              r.io_device # 0 /\ r.plc_tag = 0 /\ r.strategy_id = 0
         /\ r.classification = "PLC Only" =>
              r.plc_tag # 0 /\ r.io_device = 0 /\ r.strategy_id = 0

\* a returned list that holds a Conflict result, a Spare result and a
\* PLC Only result
C30_Witness ==
  /\ Returned
  /\ \E k \in 1..Len(results) :
       results[k].classification = "Conflict" /\ Paired(results[k])
  /\ \E k \in 1..Len(results) :
       results[k].classification = "Spare" /\ results[k].io_device # 0
  /\ \E k \in 1..Len(results) :
       results[k].classification = "PLC Only" /\ results[k].plc_tag # 0

RuleOrder ==
  << "L5X alias '{}' -> '{}' confirms tag",
     SUPPLIED_DESCRIPTION,
     "L5X alias(es) {} confirm address '{}'",
     "L5X module tree confirms hardware at '{}'",
     "L5X alias(es) {} reference device address '{}'",
     "L5X upgraded PLC tag from rack-level '{}' to alias '{}'",
     USED_IN_LOGIC,
     MAY_BE_UNUSED,
     "L5X module '{}' confirms IO hardware exists",
     "L5X: IO list marks '{}' as spare but address is referenced in rung CDATA - point is used in logic" >>

\* the place of an audit entry in the order of the rules, 0 if it has none
RuleRank(note) ==
  LET places == {n \in 1..Len(RuleOrder) : RuleOrder[n] = note.text}
  IN IF places = {} THEN 0 ELSE MinOf(places)

\* C28: enrich_results only adds to audit_trail and sources: what a result
\* had before the call is a prefix of what it has after, the entries
\* appended come in the order of the rules, and the list keeps its length
\* and order with every result keeping its IODevice.
C28_AuditAndSourcesAppendOnly ==
  snap # <<>> =>
    /\ Len(results) = Len(snap[Len(snap)].results)
    /\ \A k \in 1..Len(results) :
         /\ results[k].io_device = Before(k).io_device
         /\ IsPrefix(Before(k).audit_trail, results[k].audit_trail)
         /\ IsPrefix(Before(k).sources, results[k].sources)
         /\ IsPrefix(Original(k).audit_trail, results[k].audit_trail)
         /\ IsPrefix(Original(k).sources, results[k].sources)
         /\ \A n \in 1..Len(Appended(k)) : RuleRank(Appended(k)[n]) > 0
         /\ \A m, n \in 1..Len(Appended(k)) :
              m < n => RuleRank(Appended(k)[m]) < RuleRank(Appended(k)[n])

\* enrichment has returned: the first result, which had audit entries and
\* sources, gained entries of three rules and a source; the second gained
\* nothing
C28_Witness ==
  /\ pc = "idle"
  /\ passes = 1
  /\ Len(results) = 2
  /\ Before(1).audit_trail # <<>>
  /\ Before(1).sources # <<>>
  /\ Len(Appended(1)) >= 3
  /\ Len(results[1].sources) = Len(Before(1).sources) + 1
  /\ results[2] = Before(2)

\* the k-th result as the second call of enrich_results found it
Enriched1(k) == snap[2].results[k]

\* the PLCTag of the k-th result as the second call found it
Tag1(k) == snap[2].plc_tags[Enriched1(k).plc_tag]

\* C29: a second call of enrich_results with the same enrichment data
\* changes no result's classification, conflict_flag, sources, PLCTag name
\* or PLCTag description.
C29_SecondPassChangesAuditOnly ==
  (pc = "idle" /\ passes = 2) =>
    \A k \in 1..Len(results) :
      /\ results[k].classification = Enriched1(k).classification
      /\ results[k].conflict_flag = Enriched1(k).conflict_flag
      /\ results[k].sources = Enriched1(k).sources
      /\ (results[k].plc_tag = 0) = (Enriched1(k).plc_tag = 0)
      /\ results[k].plc_tag # 0 =>
           /\ plc_tags[results[k].plc_tag].name = Tag1(k).name
           /\ plc_tags[results[k].plc_tag].description = Tag1(k).description

\* the call has given the k-th result another PLCTag than it found
Replaced(k) == results[k].plc_tag # Before(k).plc_tag

\* the PLCTag the call found on the k-th result is a rack-level base name
\* and one alias is indexed at the address of the device
UpgradeCase(k) ==
  /\ Before(k).plc_tag # 0
  /\ Before(k).io_device # 0
  /\ lower(strip(plc_tags[Before(k).plc_tag].name))
       = lower(strip(split_first(io_devices[Before(k).io_device].plc_address)))
  /\ Len(AliasesAt(Before(k))) = 1

\* the PLCTag of the k-th result is a PLCTag the call built
NewlyBuilt(k) == results[k].plc_tag > Len(snap[Len(snap)].plc_tags)

\* C27: enrich_results replaces the PLCTag of a result only when the tag is
\* a rack-level base name and exactly one alias is indexed at the address
\* of the device, and the new PLCTag carries the name and the description
\* of that alias; otherwise the result keeps its PLCTag.
C27_ReplacedByAliasNameAndDescription ==
  snap # <<>> =>
    \A k \in 1..Len(results) :
      /\ ~UpgradeCase(k) => ~Replaced(k)
      /\ Replaced(k) =>
           /\ NewlyBuilt(k)
           /\ plc_tags[results[k].plc_tag].name = AliasesAt(Before(k))[1].name
           /\ plc_tags[results[k].plc_tag].description
                = AliasesAt(Before(k))[1].description

\* C27, amended: the new PLCTag carries the name of the alias and the
\* description of the alias or, when the alias has none, the description
\* of the PLCTag it replaces.
C27_ReplacedByAliasNameAndEitherDescription ==
  snap # <<>> =>
    \A k \in 1..Len(results) :
      /\ ~UpgradeCase(k) => ~Replaced(k)
      /\ Replaced(k) =>
           /\ NewlyBuilt(k)
           /\ plc_tags[results[k].plc_tag].name = AliasesAt(Before(k))[1].name
           /\ plc_tags[results[k].plc_tag].description
                = IF AliasesAt(Before(k))[1].description # <<>>
                  THEN AliasesAt(Before(k))[1].description
                  ELSE plc_tags[Before(k).plc_tag].description

\* enrichment has returned: one result had a rack-level PLCTag with a
\* description replaced, another kept the PLCTag it had
C27_Witness ==
  /\ pc = "idle"
  /\ passes = 1
  /\ \E k \in 1..Len(results) :
       /\ Replaced(k)
       /\ Before(k).plc_tag # 0
       /\ plc_tags[Before(k).plc_tag].description # <<>>
  /\ \E k \in 1..Len(results) :
       /\ ~Replaced(k)
       /\ Before(k).plc_tag # 0

\* the devices whose io_tag or device_tag is, case-insensitively, the
\* device identifier embedded in the name of the PLC tag t
Counterparts(t) ==
  {d \in 1..Len(io_devices) :
     /\ extract_enet_device(plc_tags[t].name) # None
     /\ lower(extract_enet_device(plc_tags[t].name))
          \in {lower(io_devices[d].io_tag), lower(io_devices[d].device_tag)}}

\* C26: every PLC Only result returned by run refers to a PLC tag without
\* facility counterpart: no input device has an io_tag or device_tag equal,
\* case-insensitively, to the device identifier embedded in the tag's name.
C26_PLCOnlyHasNoCounterpart ==
  \A n \in 1..Len(returned) :
    \A k \in 1..Len(returned[n]) :
      returned[n][k].classification = "PLC Only" =>
        Counterparts(returned[n][k].plc_tag) = {}

\* C25: every paired result of run satisfies the condition of its strategy:
\* strategy 1, the device is CLX with an address and the PLCTag is a COMMENT
\* whose specifier is the address after trim and lowercase; strategy 2, the
\* device is PLC5 and the PLCTag is a TAG whose name is, but for case, the
\* address before its first "."; strategy 4, the PLCTag is a TAG whose
\* embedded device identifier is, but for case, the io_tag or the
\* device_tag.  A device of unknown format is never paired by 1 or 2.
C25_PairedResultMeetsStrategyCondition ==
  \A n \in 1..Len(returned) :
    \A k \in 1..Len(returned[n]) :
      LET r == returned[n][k]
          dev == io_devices[r.io_device]
          tag == plc_tags[r.plc_tag]
      IN Paired(r) =>
           /\ r.strategy_id = 1 =>
                /\ dev.address_format = "CLX"
                /\ dev.plc_address # <<>>
                /\ tag.record_type = "COMMENT"
                /\ lower(strip(tag.specifier)) = lower(strip(dev.plc_address))
           /\ r.strategy_id = 2 =>
                /\ dev.address_format = "PLC5"
                /\ tag.record_type = "TAG"
                /\ lower(tag.name) = lower(split_first(dev.plc_address))
           /\ r.strategy_id = 4 =>
                /\ tag.record_type = "TAG"
                /\ extract_enet_device(tag.name) # None
                /\ lower(extract_enet_device(tag.name))
                     \in {lower(dev.io_tag), lower(dev.device_tag)}
           /\ dev.address_format = "Unknown" => r.strategy_id \notin {1, 2}

\* a returned list that holds a pair of strategy 1 and a pair of strategy 4
C25_Witness ==
  /\ Returned
  /\ \E k \in 1..Len(results) :
       Paired(results[k]) /\ results[k].strategy_id = 1
  /\ \E k \in 1..Len(results) :
       Paired(results[k]) /\ results[k].strategy_id = 4

\* the tag ends with the suffix, letter case aside
EndsWithNoCase(tag, suffix) ==
  /\ Len(tag) >= Len(suffix)
  /\ \A k \in 1..Len(suffix) :
       lower_char(tag[Len(tag) - Len(suffix) + k]) = lower_char(suffix[k])

\* the tag without the first suffix of the list it ends with, if any
WithoutFirstSuffix(tag, suffix_list) ==
  LET found == {k \in 1..Len(suffix_list) :
                  EndsWithNoCase(tag, suffix_list[k])}
  IN IF found = {} THEN tag
     ELSE SubSeq(tag, 1, Len(tag) - Len(suffix_list[MinOf(found)]))

\* C24: strip_suffixes and normalize_tag remove at most one suffix, the
\* first of the ordered list that the name ends with, letter case aside,
\* and the rest is kept as it is (strip_suffixes) or trimmed and lowercased
\* (normalize_tag): P100_Failed_Old gives p100_failed, TSV22_EV gives tsv22,
\* AS611_AUX gives as611.
C24_AtMostOneSuffixStripped ==
  pc = "normalizers" =>
    /\ ret.fn = "strip_suffixes" =>
         ret.value = WithoutFirstSuffix(arg.tag, arg.suffixes)
    /\ ret.fn = "normalize_tag" =>
         /\ ret.value = lower(WithoutFirstSuffix(strip(arg.tag), KNOWN_SUFFIXES))
         /\ arg.tag = <<"P","1","0","0","_","F","a","i","l","e","d","_","O","l","d">>
              => ret.value = <<"p","1","0","0","_","f","a","i","l","e","d">>
         /\ arg.tag = <<"T","S","V","2","2","_","E","V">>
              => ret.value = <<"t","s","v","2","2">>
         /\ arg.tag = <<"A","S","6","1","1","_","A","U","X">>
              => ret.value = <<"a","s","6","1","1">>

\* normalize_tag has returned p100_failed for P100_Failed_Old
C24_Witness ==
  /\ pc = "normalizers"
  /\ ret.fn = "normalize_tag"
  /\ arg.tag = <<"P","1","0","0","_","F","a","i","l","e","d","_","O","l","d">>
  /\ ret.value = <<"p","1","0","0","_","f","a","i","l","e","d">>

\* the rules of classify_tag in their order, each with its category
Rule(tag) ==
  << <<tag.record_type = "ALIAS", "Alias">>,
     <<tag.record_type = "COMMENT" /\ tag.specifier # <<>>,
       "Bit_Level_Comment">>,
     <<is_enet_device_tag(tag), "ENet_Device">>,
     <<is_io_module_tag(tag), "IO_Module">>,
     <<is_rack_io_tag(tag), "Rack_IO">>,
     <<is_program_tag(tag), "Program">>,
     <<TRUE, "Unknown">> >>

Extracted == pc = "l5x_to_crosscheck" /\ ret.fn = "extract_l5x_enrichment"

\* the alias definition a is in the bucket of the messaging aliases, of the
\* consumed aliases, of the physical-IO aliases
InMsgTags(a) ==
  \E n \in 1..Len(ret.value.msg_tags) :
    LET e == ret.value.msg_tags[n]
    IN Alias(e.name, e.alias_for, e.description) = a

InConsumedTags(a) ==
  \E n \in 1..Len(ret.value.consumed_tags) : ret.value.consumed_tags[n] = a

InAliasByAddress(a) ==
  \E key \in DOMAIN ret.value.alias_by_address :
    \E n \in 1..Len(ret.value.alias_by_address[key]) :
      ret.value.alias_by_address[key][n] = a

\* the buckets that hold a
BucketsOf(a) ==
  {b \in {"msg", "consumed", "physical"} :
     \/ b = "msg" /\ InMsgTags(a)
     \/ b = "consumed" /\ InConsumedTags(a)
     \/ b = "physical" /\ InAliasByAddress(a)}

\* every entry of the two indexes is a definition of the input that is
\* neither a messaging nor a consumed alias, and is in neither of their
\* buckets
OnlyPhysicalIndexed ==
  \A key \in DOMAIN ret.value.alias_by_address \cup DOMAIN ret.value.alias_by_name :
    \A v \in (IF key \in DOMAIN ret.value.alias_by_address
               THEN {ret.value.alias_by_address[key][n] :
                       n \in 1..Len(ret.value.alias_by_address[key])}
               ELSE {})
              \cup (IF key \in DOMAIN ret.value.alias_by_name
                    THEN {ret.value.alias_by_name[key]} ELSE {}) :
      /\ \E k \in 1..Len(arg) : arg[k] = v
      /\ ~detect_msg_direction(v.alias_for)[1]
      /\ ~is_consumed_reference(v.alias_for)
      /\ ~InMsgTags(v)
      /\ ~InConsumedTags(v)

\* C23: extract_l5x_enrichment places every alias definition in exactly one
\* of the three buckets, none in two and none in none, and only physical-IO
\* aliases are entered in alias_by_address and alias_by_name.
C23_EveryAliasInExactlyOneBucket ==
  Extracted =>
    /\ \A k \in 1..Len(arg) : Cardinality(BucketsOf(arg[k])) = 1
    /\ OnlyPhysicalIndexed

\* C23, amended: a definition with a name and a target is in exactly one
\* bucket; a definition that lacks either is dropped and is in none.
C23_NamedAliasInExactlyOneBucket ==
  Extracted =>
    /\ \A k \in 1..Len(arg) :
         IF arg[k].name # <<>> /\ arg[k].alias_for # <<>>
         THEN Cardinality(BucketsOf(arg[k])) = 1
         ELSE BucketsOf(arg[k]) = {}
    /\ OnlyPhysicalIndexed

\* extract_l5x_enrichment has returned for a messaging alias, a consumed
\* alias and a physical-IO alias, each in its own bucket
C23_Witness ==
  /\ Extracted
  /\ Len(arg) = 3
  /\ BucketsOf(ALIAS_MSG) = {"msg"}
  /\ BucketsOf(ALIAS_CONSUMED) = {"consumed"}
  /\ \E k \in 1..3 : BucketsOf(arg[k]) = {"physical"}

====
